---- MODULE Spec2Model ----
(***************************************************************************)
(* Model of ec_978.py: the error-correcting decoder for 978 MHz UAT        *)
(* frames (FIS-B ground uplink and ADS-B short/long).                      *)
(*                                                                         *)
(* Shift weights are kept in hundredths (-0.75 is -75); the "no shift"     *)
(* sentinel -1 of the source is NoShift.  A hex string is a sequence of    *)
(* hex digits 0..15.  The Reed-Solomon library (pyreedsolomon) is not part *)
(* of the repository: each call of tryShiftBits is given an oracle that    *)
(* names the shifted candidates the library accepts, the message it then   *)
(* returns and the error count it reports.                                 *)
(***************************************************************************)
EXTENDS Integers, Sequences, FiniteSets, TLC

VARIABLES
  config,           \* startup flags (module globals set by the argument parser)
  pc,               \* position of the dispatcher / decoder
  frame,            \* the frame being processed: attribute kind and samples
  out,              \* the lines written to standard output for this frame
  result,           \* what process*Packet returned for the last finished frame
  offset,           \* decodeFisb / decodeAdsb: sample offset of the current pass
  block,            \* decodeFisb: loop variable
  hexBlocks,        \* decodeFisb: per-block hex payload or None
  hexErrs,          \* decodeFisb: per-block error value
  shiftThatWorked,  \* decodeFisb: shift of the last ordinary block decode
  attempt,          \* processAdsbPacket: which of the four attempts is next
  isShort,          \* processAdsbPacket: the short/long hint
  tried,            \* history: the (offset, isShort) attempts of this ADS-B frame
  passHist,         \* history: calls, last block decode and first block of this pass
  call,             \* history: the tryShiftBits call made by the last step
  check,            \* history: the block0ThoroughCheck call made by the last step
  slicer,           \* the sample arrays of one extractBlockBits* / tryShiftBits call
  server            \* server_978.py: the state of main's select loop

\* The variables of the dispatcher and the decoders.
decoderVars ==
  << config, pc, frame, out, result, offset, block, hexBlocks,
     hexErrs, shiftThatWorked, attempt, isShort, tried, passHist, call, check >>

vars == << config, pc, frame, out, result, offset, block, hexBlocks,
           hexErrs, shiftThatWorked, attempt, isShort, tried, passHist, call, check,
           slicer, server >>

----------------------------------------------------------------------------
\* Bounds of the model.

\* The Reed-Solomon oracle may accept the shifts SHIFT_BY_PROBABILITY[1..MaxOkIdx].
MaxOkIdx == 2
\* Largest number of --f6b prefixes configured.
MaxF6b == 2
\* Largest number of bytes a sample-buffer read returns when the input ends
\* in the buffer (a read that is not cut short returns the packet length).
MaxTruncated == 4

----------------------------------------------------------------------------
\* Program constants.

NoShift == -100
ErrFailed == 98
ErrNotTried == 99
F6bFailed == -74
RsFailed == -1
NumBlocks == 6
BlockDataBytes == 72
ATTRIBUTE_LEN == 30
PACKET_LENGTH_FISB == 35340
PACKET_LENGTH_ADSB == 3084

SHIFT_BY_PROBABILITY ==
  << 0, -75, 75, -50, 50, -25, 25, -85, 40, 65, -30, 80, -5, 5, -90, 90,
     -10, 10, 85, -15, 15, -80, -65, -35, 35, -70, 70, 30, -40, -60, 60,
     -20, 20, -45, 45, -55, 55 >>

rsAdsbS == [name |-> "rsAdsbS", k |-> 18, n |-> 30, roots |-> 12]
rsAdsbL == [name |-> "rsAdsbL", k |-> 34, n |-> 48, roots |-> 14]
rsFisb  == [name |-> "rsFisb",  k |-> 72, n |-> 92, roots |-> 20]

\* Python's None where a hex string is expected (no hex string equals it).
None == << -1 >>

----------------------------------------------------------------------------
\* Hex strings.

\* bytes.hex(): two hex digits per byte, high digit first.
Hex(bytes) ==
  [i \in 1..(2 * Len(bytes)) |->
     IF i % 2 = 1 THEN bytes[(i + 1) \div 2] \div 16 ELSE bytes[i \div 2] % 16]

\* bytearray.fromhex(): one byte per pair of hex digits.
FromHex(hex) ==
  [i \in 1..(Len(hex) \div 2) |-> 16 * hex[2 * i - 1] + hex[2 * i]]

\* '00' * 72
ZeroBlockHex == [i \in 1..(2 * BlockDataBytes) |-> 0]

----------------------------------------------------------------------------
\* The attribute header and the sample buffer.

\* An attribute string as the demodulator sends it:
\* <secs>.<usec6>.<K>.<ss>.<syncerr>, 30 characters.
AttrStr(kind) ==
  << "1", "6", "2", "1", "3", "4", "4", "0", "0", "0", ".",
     "1", "2", "3", "4", "5", "6", ".", kind, ".",
     "1", "2", "3", "4", "5", "6", "7", "8", ".", "3" >>

\* str.split("."): the tokens between the dots, from character i on.
RECURSIVE Split(_, _, _)
Split(str, i, token) ==
  IF i > Len(str) THEN << token >>
  ELSE IF str[i] = "." THEN << token >> \o Split(str, i + 1, << >>)
  ELSE Split(str, i + 1, Append(token, str[i]))

\* Whether main raises while it parses the attribute string: splitName[1],
\* int(splitName[3]) and splitName[4] are read (IndexError for a missing
\* token, ValueError for int('')).
AttrRaises(attrStr) ==
  LET splitName == Split(attrStr, 1, << >>)
  IN \/ Len(splitName) < 2
     \/ Len(splitName) < 4
     \/ splitName[4] = << >>
     \/ Len(splitName) < 5

\* isFisbPacket, for an attribute string that parses.
IsFisbPacket(attrStr) == Split(attrStr, 1, << >>)[3] = << "F" >>

\* packetLength
PacketLength(isFisbPacket) ==
  IF isFisbPacket THEN PACKET_LENGTH_FISB ELSE PACKET_LENGTH_ADSB

\* samples[start:stop:step] of an array of n samples, as the sequence of the
\* sample indices read (start, stop >= 0).
Slice(n, start, stop, step) ==
  LET hi == IF stop < n THEN stop ELSE n
      cnt == IF hi > start THEN (hi - start + step - 1) \div step ELSE 0
  IN [k \in 1..cnt |-> start + step * (k - 1)]

\* extractBlockBitsFisb reading the 92 words of a block one after the other,
\* without the interleave.
FisbWordSlicesContiguous(n, off, blockNumber, i) ==
  LET samplesPtr == off + ((92 * 8 * blockNumber) * 2) + 16 * i
  IN [bits |-> Slice(n, samplesPtr, samplesPtr + 16, 2),
      bitsBefore |-> Slice(n, samplesPtr - 1, samplesPtr + 16 - 1, 2),
      bitsAfter |-> Slice(n, samplesPtr + 1, samplesPtr + 16 + 1, 2)]

\* extractBlockBitsFisb taking the start offset as zero-based: every slice
\* starts one sample earlier.
FisbWordSlicesZeroBased(n, off, blockNumber, i) ==
  LET samplesPtr == (off - 1) + ((8 * blockNumber) * 2) + 96 * i
  IN [bits |-> Slice(n, samplesPtr, samplesPtr + 16, 2),
      bitsBefore |-> Slice(n, samplesPtr - 1, samplesPtr + 16 - 1, 2),
      bitsAfter |-> Slice(n, samplesPtr + 1, samplesPtr + 16 + 1, 2)]

\* The three slices extractBlockBitsFisb takes for data word i of a block.
FisbWordSlices(n, off, blockNumber, i) ==
  LET samplesPtr == off + ((8 * blockNumber) * 2) + 96 * i
  IN [bits |-> Slice(n, samplesPtr, samplesPtr + 16, 2),
      bitsBefore |-> Slice(n, samplesPtr - 1, samplesPtr + 16 - 1, 2),
      bitsAfter |-> Slice(n, samplesPtr + 1, samplesPtr + 16 + 1, 2)]

\* Assigning a slice to a row of 8 of a holder raises ValueError unless the
\* slice has 8 elements, or 1 (which numpy broadcasts).
RowRaises(slice) == Len(slice) \notin { 1, 8 }

\* Whether extractBlockBitsFisb raises on an array of n samples.
ExtractFisbRaises(n, off, blockNumber) ==
  \E i \in 0..91 :
    LET w == FisbWordSlices(n, off, blockNumber, i)
    IN RowRaises(w.bits) \/ RowRaises(w.bitsBefore) \/ RowRaises(w.bitsAfter)

\* Whether the first use of a sample buffer of nbytes bytes raises:
\* np.frombuffer (ValueError unless the size is a multiple of 4), then the
\* first extractBlockBitsFisb call of decodeFisb (offset 1, block 0) or the
\* read of samples[1] in processAdsbPacket (IndexError).
BufferRaises(isFisbPacket, nbytes) ==
  \/ nbytes % 4 # 0
  \/ isFisbPacket /\ ExtractFisbRaises(nbytes \div 4, 1, 0)
  \/ ~isFisbPacket /\ nbytes \div 4 <= 1

----------------------------------------------------------------------------
\* Inputs: the frames the upstream demodulator may send.

\* A transmitted ground-uplink payload: 8 header bytes, then inner frames of
\* the given lengths (2 length bytes + L data bytes each), then a terminator
\* (two zero bytes), then `tail` bytes up to byte 431.  A noisy frame is one
\* in which every block that decodes needs errors corrected.
TxFrames ==
  << [lens |-> << >>,                        tail |-> 0,   noisy |-> FALSE],
     [lens |-> << 3 >>,                      tail |-> 0,   noisy |-> TRUE],
     [lens |-> << 61 >>,                     tail |-> 0,   noisy |-> FALSE],
     [lens |-> << 62 >>,                     tail |-> 0,   noisy |-> TRUE],
     [lens |-> << 62, 70, 70, 70, 70, 70 >>, tail |-> 0,   noisy |-> TRUE],
     [lens |-> << 511 >>,                    tail |-> 0,   noisy |-> FALSE],
     [lens |-> << 62, 70 >>,                 tail |-> 0,   noisy |-> FALSE],
     [lens |-> << 62 >>,                     tail |-> 255, noisy |-> FALSE],
     [lens |-> << 61 >>,                     tail |-> 255, noisy |-> TRUE] >>

RECURSIVE TxByteFrom(_, _, _, _)
TxByteFrom(tx, k, start, p) ==
  IF k > Len(tx.lens)
    THEN IF p < start + 2 THEN 0 ELSE tx.tail
    ELSE LET L == tx.lens[k]
         IN IF p = start THEN L \div 2
            ELSE IF p = start + 1 THEN (L % 2) * 128
            ELSE IF p < start + 2 + L THEN 17
            ELSE TxByteFrom(tx, k + 1, start + 2 + L, p)

\* Byte p (0..431) of the transmitted payload.
TxByte(tx, p) == IF p < 8 THEN 60 ELSE TxByteFrom(tx, 1, 8, p)

\* The 72 data bytes of block b (0..5).
TxBlock(tx, b) ==
  [j \in 1..BlockDataBytes |-> TxByte(tx, BlockDataBytes * b + j - 1)]

\* The blocks of every frame of TxFrames.
TxBlocks == [t \in 1..Len(TxFrames) |-> [b \in 0..5 |-> TxBlock(TxFrames[t], b)]]

\* An ADS-B message of k bytes whose first byte is byte0.
AdsbMsg(byte0, k) == [j \in 1..k |-> IF j = 1 THEN byte0 ELSE 90]

\* First bytes the Reed-Solomon library may return for an ADS-B attempt:
\* payload type codes 0, 1, 6, 7 and 31.
AdsbByte0 == { 0, 8, 48, 56, 248 }

\* The messages the short and the long code may return.
AdsbMsgs ==
  [ short |-> { AdsbMsg(b, rsAdsbS.k) : b \in AdsbByte0 },
    long |-> { AdsbMsg(b, rsAdsbL.k) : b \in AdsbByte0 } ]

\* Received ADS-B buffers: samples[1], samples[3], ..., samples[9], and
\* whether the packet needs errors corrected.
RxAdsb ==
  << [lead |-> << -1, -1, -1, -1, -1 >>, noisy |-> FALSE],
     [lead |-> << 0, 0, 0, 0, 0 >>,      noisy |-> TRUE],
     [lead |-> << 1, 1, 1, 1, 1 >>,      noisy |-> FALSE],
     [lead |-> << 0, 1, 1, 1, 1 >>,      noisy |-> TRUE],
     [lead |-> << 1, 1, 1, 1, -1 >>,     noisy |-> FALSE],
     [lead |-> << -1, -1, 1, -1, -1 >>,  noisy |-> TRUE] >>

NoLead == << 0, 0, 0, 0, 0 >>

\* The shifts the Reed-Solomon library may accept.
DecodableShifts == { SHIFT_BY_PROBABILITY[i] : i \in 1..MaxOkIdx }

\* One oracle per tryShiftBits call: the shifts whose candidate the library
\* accepts, the --f6b prefixes (by index) with which it accepts them, the
\* message it returns and the error count it reports (none in a clean frame,
\* as many as the code corrects in a noisy one).
Oracles(rs, msgs, f6b) ==
  [ ok : SUBSET DecodableShifts,
    prefixOk : IF f6b THEN SUBSET (0..(config.f6bArrayLen - 1)) ELSE { {} },
    msg : msgs,
    errs : { IF frame.noisy THEN rs.roots \div 2 ELSE 0 } ]

\* Whether the library accepts the candidate of `shift` in some packAndTest call.
Accepts(oracle, shift, f6b) ==
  /\ shift \in oracle.ok
  /\ f6b => oracle.prefixOk # {}

----------------------------------------------------------------------------
\* rs.decode(byts) of the library: the corrected k-byte message and the
\* number of errors, or a negative error value.
RsDecode(rs, accepted, oracle) ==
  IF accepted THEN [msg |-> oracle.msg, errs |-> oracle.errs]
              ELSE [msg |-> << >>, errs |-> RsFailed]

\* The loop over f6bArray going on to the next prefix after a decode: the
\* last prefix that decodes is the one returned.
RECURSIVE F6bLoopLastWins(_, _, _, _)
F6bLoopLastWins(rs, oracle, shift, i) ==
  IF i >= config.f6bArrayLen
    THEN [hex |-> None, errs |-> F6bFailed, prefix |-> i, tries |-> << >>]
    ELSE LET d == RsDecode(rs, shift \in oracle.ok /\ i \in oracle.prefixOk, oracle)
             later == F6bLoopLastWins(rs, oracle, shift, i + 1)
         IN IF d.errs >= 0 /\ later.errs < 0
              THEN [hex |-> Hex(d.msg), errs |-> d.errs, prefix |-> i,
                    tries |-> << TRUE >> \o later.tries]
              ELSE [later EXCEPT !.tries = << d.errs >= 0 >> \o @]

\* The loop over f6bArray from prefix i on: prefix i is written over bytes
\* 0..5 and the decoder is called; `tries` lists, for the prefixes tried in
\* turn, whether the decoder accepted.
RECURSIVE F6bLoop(_, _, _, _)
F6bLoop(rs, oracle, shift, i) ==
  IF i >= config.f6bArrayLen
    THEN [hex |-> None, errs |-> F6bFailed, prefix |-> i, tries |-> << >>]
    ELSE LET d == RsDecode(rs, shift \in oracle.ok /\ i \in oracle.prefixOk, oracle)
         IN IF d.errs >= 0
              THEN [hex |-> Hex(d.msg), errs |-> d.errs, prefix |-> i,
                    tries |-> << TRUE >>]
              ELSE [F6bLoop(rs, oracle, shift, i + 1)
                      EXCEPT !.tries = << FALSE >> \o @]

\* packAndTest: the candidate of the given shift is packed and handed to the
\* Reed-Solomon decoder, with each configured prefix in turn when f6b.
packAndTest(rs, oracle, shift, f6b) ==
  IF ~f6b
    THEN LET d == RsDecode(rs, shift \in oracle.ok, oracle)
         IN IF d.errs >= 0
              THEN [hex |-> Hex(d.msg), errs |-> d.errs, prefix |-> -1,
                    tries |-> << >>]
              ELSE [hex |-> None, errs |-> d.errs, prefix |-> -1, tries |-> << >>]
    ELSE F6bLoop(rs, oracle, shift, 0)

\* The hint, then the whole table: the hint is tried again at its place.
ShiftOrderNoSkip(tryFirst) ==
  (IF tryFirst # NoShift THEN << tryFirst >> ELSE << >>) \o SHIFT_BY_PROBABILITY

\* The shifts in the order tryShiftBits hands their candidates to
\* packAndTest: the hint when there is one, then the table without the hint.
ShiftOrder(tryFirst) ==
  (IF tryFirst # NoShift THEN << tryFirst >> ELSE << >>)
    \o SelectSeq(SHIFT_BY_PROBABILITY, LAMBDA shift : shift # tryFirst)

\* The shifts whose candidate packAndTest decodes.
Decodable(rs, oracle, f6b) ==
  { shift \in oracle.ok : packAndTest(rs, oracle, shift, f6b).errs >= 0 }

\* The position in `order` of the first candidate packAndTest decodes, or 0.
FirstDecoded(rs, oracle, order, f6b) ==
  IF Decodable(rs, oracle, f6b) = {}
    THEN 0
    ELSE CHOOSE i \in 1..Len(order) :
           /\ order[i] \in Decodable(rs, oracle, f6b)
           /\ \A j \in 1..(i - 1) : order[j] \notin Decodable(rs, oracle, f6b)

\* tryShiftBits: the hint first, then the table; it returns at the first
\* candidate that decodes.  `attempts` lists the shifts handed to packAndTest,
\* in order; `forced` tells whether the fixed bits of block 0 were forced into
\* the candidate that decoded (into all of the table's when none did).
tryShiftBits(rs, oracle, tryFirst, f6b, block0FixedBits) ==
  CHOOSE res \in
    { IF p[2] = 0
        THEN [status |-> FALSE, hex |-> None, errs |-> ErrFailed,
              shift |-> NoShift, attempts |-> p[1], forced |-> block0FixedBits]
        ELSE [status |-> TRUE, hex |-> p[3].hex, errs |-> p[3].errs,
              shift |-> p[1][p[2]], attempts |-> SubSeq(p[1], 1, p[2]),
              forced |-> block0FixedBits /\ ~(tryFirst # NoShift /\ p[2] = 1)] :
      p \in { << q[1], q[2],
                 IF q[2] = 0 THEN [hex |-> None, errs |-> RsFailed]
                 ELSE packAndTest(rs, oracle, q[1][q[2]], f6b) >> :
              q \in { << order, FirstDecoded(rs, oracle, order, f6b) >> :
                      order \in { ShiftOrder(tryFirst) } } } } : TRUE

----------------------------------------------------------------------------
\* block0ThoroughCheck.

\* The gathering loop: for i in range(1, 5).
RECURSIVE Gather(_, _, _)
Gather(hb, i, hexData) ==
  IF i >= 5 THEN hexData
  ELSE IF hb[i] # None THEN Gather(hb, i + 1, hexData \o hb[i])
  ELSE hexData

\* The walk over the inner frames; bytePtr counts from 0 as in the source.
\* `walk` lists the pointers left behind, `ptr` is the last pointer.
RECURSIVE FrameWalk(_, _, _)
FrameWalk(dataBytes, bytePtr, walk) ==
  IF bytePtr + 1 >= Len(dataBytes)
    THEN [found |-> FALSE, ptr |-> bytePtr, walk |-> walk]
    ELSE LET uatFrameLen == (dataBytes[bytePtr + 1] * 2)
                            + (dataBytes[bytePtr + 2] \div 128)
         IN IF uatFrameLen = 0
              THEN [found |-> TRUE, ptr |-> bytePtr, walk |-> walk]
              ELSE FrameWalk(dataBytes, bytePtr + uatFrameLen + 2,
                             Append(walk, bytePtr))

\* What block0ThoroughCheck returns after the walk w: when the walk found a
\* frame length of zero, the blocks i in range(firstEmpty, 6) are set to
\* '00' * 72.
EmptyFill(hb, w, firstEmpty) ==
  IF w.found
    THEN [found |-> TRUE,
          hexBlocks |-> [i \in 0..5 |-> IF i >= firstEmpty THEN ZeroBlockHex
                                                           ELSE hb[i]],
          ptr |-> w.ptr, walk |-> w.walk]
    ELSE [found |-> FALSE, hexBlocks |-> hb, ptr |-> w.ptr, walk |-> w.walk]

\* The bytes of block 0 and of the blocks after it up to the first None.
GatheredBytes(hb) == FromHex(Gather(hb, 1, hb[0]))

\* block0ThoroughCheck with the fill starting one block late.
block0ThoroughCheckLateFill(hb) ==
  IF hb[0] = None
    THEN [found |-> FALSE, hexBlocks |-> hb, ptr |-> -1, walk |-> << >>]
    ELSE CHOOSE res \in
           { EmptyFill(hb, w, ((w.ptr + 1) \div 72) + 2) :
             w \in { FrameWalk(dataBytes, 8, << >>) :
                     dataBytes \in { GatheredBytes(hb) } } } : TRUE

\* block0ThoroughCheck with currentBlock taken from bytePtr, not bytePtr + 1.
block0ThoroughCheckPtrBlock(hb) ==
  IF hb[0] = None
    THEN [found |-> FALSE, hexBlocks |-> hb, ptr |-> -1, walk |-> << >>]
    ELSE CHOOSE res \in
           { EmptyFill(hb, w, (w.ptr \div 72) + 1) :
             w \in { FrameWalk(dataBytes, 8, << >>) :
                     dataBytes \in { GatheredBytes(hb) } } } : TRUE

\* block0ThoroughCheck setting the blocks that are still None to '00' * 72
\* before it knows whether the walk finds a frame length of zero.
block0ThoroughCheckEagerFill(hb) ==
  IF hb[0] = None
    THEN [found |-> FALSE, hexBlocks |-> hb, ptr |-> -1, walk |-> << >>]
    ELSE CHOOSE res \in
           { IF w.found
               THEN EmptyFill(hb, w, ((w.ptr + 1) \div 72) + 1)
               ELSE [found |-> FALSE,
                     hexBlocks |-> [i \in 0..5 |-> IF hb[i] = None THEN ZeroBlockHex
                                                                  ELSE hb[i]],
                     ptr |-> w.ptr, walk |-> w.walk] :
             w \in { FrameWalk(dataBytes, 8, << >>) :
                     dataBytes \in { GatheredBytes(hb) } } } : TRUE

\* block0ThoroughCheck filling, after currentBlock, only the blocks that are
\* still None.
block0ThoroughCheckKeepsDecoded(hb) ==
  IF hb[0] = None
    THEN [found |-> FALSE, hexBlocks |-> hb, ptr |-> -1, walk |-> << >>]
    ELSE CHOOSE res \in
           { IF w.found
               THEN [found |-> TRUE,
                     hexBlocks |-> [i \in 0..5 |->
                                      IF i > (w.ptr + 1) \div 72 /\ hb[i] = None
                                        THEN ZeroBlockHex ELSE hb[i]],
                     ptr |-> w.ptr, walk |-> w.walk]
               ELSE [found |-> FALSE, hexBlocks |-> hb, ptr |-> w.ptr,
                     walk |-> w.walk] :
             w \in { FrameWalk(dataBytes, 8, << >>) :
                     dataBytes \in { GatheredBytes(hb) } } } : TRUE

\* Returns the (found, hexBlocks) pair of the source and the walk made:
\* currentBlock = (bytePtr + 1) // 72, and the fill starts at currentBlock + 1.
block0ThoroughCheck(hb) ==
  IF hb[0] = None
    THEN [found |-> FALSE, hexBlocks |-> hb, ptr |-> -1, walk |-> << >>]
    ELSE CHOOSE res \in
           { EmptyFill(hb, w, ((w.ptr + 1) \div 72) + 1) :
             w \in { FrameWalk(dataBytes, 8, << >>) :
                     dataBytes \in { GatheredBytes(hb) } } } : TRUE

\* blockZeroTricks handing on, after a failed sweep with known prefixes, the
\* error value of the last packAndTest call in place of 98.
blockZeroTricksRawErrs(oracle, hb) ==
  CHOOSE res \in
    { IF r.status
        THEN [status |-> TRUE, hexBlocks |-> [hb EXCEPT ![0] = r.hex],
              errs |-> r.errs, sweep |-> r]
        ELSE [status |-> FALSE, hexBlocks |-> hb,
              errs |-> IF config.replace_f6b
                         THEN packAndTest(rsFisb, oracle,
                                          r.attempts[Len(r.attempts)], TRUE).errs
                         ELSE ErrFailed,
              sweep |-> r] :
      r \in { tryShiftBits(rsFisb, oracle, NoShift, config.replace_f6b,
                           config.block_zero_fixed_bits) } } : TRUE

\* blockZeroTricks returning True with its error count but without storing
\* the payload in hexBlocks[0].
blockZeroTricksNoStore(oracle, hb) ==
  CHOOSE res \in
    { IF r.status
        THEN [status |-> TRUE, hexBlocks |-> hb, errs |-> r.errs, sweep |-> r]
        ELSE [status |-> FALSE, hexBlocks |-> hb, errs |-> ErrFailed, sweep |-> r] :
      r \in { tryShiftBits(rsFisb, oracle, NoShift, config.replace_f6b,
                           config.block_zero_fixed_bits) } } : TRUE

\* blockZeroTricks: one table sweep with the known prefixes and / or the
\* fixed bits of block 0.
blockZeroTricks(oracle, hb) ==
  CHOOSE res \in
    { IF r.status
        THEN [status |-> TRUE, hexBlocks |-> [hb EXCEPT ![0] = r.hex],
              errs |-> r.errs, sweep |-> r]
        ELSE [status |-> FALSE, hexBlocks |-> hb, errs |-> ErrFailed, sweep |-> r] :
      r \in { tryShiftBits(rsFisb, oracle, NoShift, config.replace_f6b,
                           config.block_zero_fixed_bits) } } : TRUE

\* decodeAdsb without the payload type / length check.
decodeAdsbUnchecked(oracle, isShortArg) ==
  CHOOSE res \in
    { IF r.status
        THEN [status |-> TRUE, hexBlock |-> r.hex, errs |-> r.errs, sweep |-> r]
        ELSE [status |-> FALSE, hexBlock |-> None, errs |-> ErrFailed,
              sweep |-> r] :
      r \in { tryShiftBits(IF isShortArg THEN rsAdsbS ELSE rsAdsbL, oracle,
                           NoShift, FALSE, FALSE) } } : TRUE

\* decodeAdsb handing back what tryShiftBits returned when the check rejects.
decodeAdsbPassThrough(oracle, isShortArg) ==
  CHOOSE res \in
    { LET hexBlockLen == Len(r.hex)
          byte0 == FromHex(SubSeq(r.hex, 1, 2))[1]
          payloadTypeCode == (byte0 - (byte0 % 8)) \div 8
      IN [status |-> r.status /\ ( \/ (payloadTypeCode = 0 /\ hexBlockLen = 36)
                                   \/ (payloadTypeCode > 0 /\ payloadTypeCode < 7
                                       /\ hexBlockLen = 68) ),
          hexBlock |-> r.hex, errs |-> r.errs, sweep |-> r] :
      r \in { tryShiftBits(IF isShortArg THEN rsAdsbS ELSE rsAdsbL, oracle,
                           NoShift, FALSE, FALSE) } } : TRUE

\* decodeAdsb: one sweep with the short or the long code, then the payload
\* type / length check.
decodeAdsb(oracle, isShortArg) ==
  CHOOSE res \in
    { LET hexBlockLen == Len(r.hex)
          byte0 == FromHex(SubSeq(r.hex, 1, 2))[1]
          payloadTypeCode == (byte0 - (byte0 % 8)) \div 8
      IN IF r.status /\ ( \/ (payloadTypeCode = 0 /\ hexBlockLen = 36)
                          \/ (payloadTypeCode > 0 /\ payloadTypeCode < 7
                              /\ hexBlockLen = 68) )
           THEN [status |-> TRUE, hexBlock |-> r.hex, errs |-> r.errs, sweep |-> r]
           ELSE [status |-> FALSE, hexBlock |-> None, errs |-> ErrFailed,
                 sweep |-> r] :
      r \in { tryShiftBits(IF isShortArg THEN rsAdsbS ELSE rsAdsbL, oracle,
                           NoShift, FALSE, FALSE) } } : TRUE

\* The four calls with the two offset 1 attempts first, but the hint before
\* its opposite at offset 2 as well.
AdsbAttemptsHintFirst(off, short) ==
  << << off, short >>, << off, ~short >>, << off + 1, short >>,
     << off + 1, ~short >> >>

\* The four decodeAdsb calls of processAdsbPacket, in program order, as
\* (offset, isShort) pairs.
AdsbAttempts(off, short) ==
  << << off, short >>, << off, ~short >>, << off + 1, ~short >>,
     << off + 1, short >> >>

\* The short/long guess of processAdsbPacket; lead[i] is samples[2 * i - 1].
RECURSIVE GuessShort(_, _)
GuessShort(lead, i) ==
  IF i > 5 THEN TRUE
  ELSE IF lead[i] <= 0 THEN FALSE
  ELSE GuessShort(lead, i + 1)

----------------------------------------------------------------------------
\* Output lines.

NoLine == [tag |-> "None", hex |-> << >>, rs |-> << >>]

\* fisbHexErrsToStr: the six error values, in block order.
fisbHexErrsToStr(he) == [i \in 1..6 |-> he[i - 1]]

\* fisbHexBlocksToHexString (without the leading '+', which is the tag).
fisbHexBlocksToHexString(hb) ==
  hb[0] \o hb[1] \o hb[2] \o hb[3] \o hb[4] \o hb[5]

fisbHexBlocksFormatted(hb, he) ==
  [tag |-> "+", hex |-> fisbHexBlocksToHexString(hb), rs |-> fisbHexErrsToStr(he)]

\* adsbHexBlockFormatted starting the line like a FIS-B line.
adsbHexBlockFormattedPlus(hexBlock, errs) ==
  [tag |-> "+", hex |-> hexBlock, rs |-> << errs >>]

adsbHexBlockFormatted(hexBlock, errs) ==
  [tag |-> "-", hex |-> hexBlock, rs |-> << errs >>]

----------------------------------------------------------------------------
\* History records.

NoCall ==
  [made |-> FALSE, step |-> "none", rs |-> "none", block |-> -1, offset |-> 0,
   short |-> FALSE, tryFirst |-> NoShift, status |-> FALSE, hex |-> None,
   errs |-> 0, shift |-> NoShift, attempts |-> << >>, verdicts |-> << >>,
   forced |-> FALSE, nth |-> 0, accepted |-> FALSE, retNone |-> TRUE,
   retErrs |-> 0, f6b |-> FALSE, prefixOk |-> { }, prefixTries |-> << >>]

\* The record of a tryShiftBits call: its arguments, its result r, for each
\* attempt whether the library decoded the candidate and what it said to each
\* known prefix packAndTest tried, and what the caller
\* (decodeAdsb, blockZeroTricks, or decodeFisb itself) made of the result:
\* its status, whether its payload is None, and its error value.
CallRecord(step, rs, b, off, short, tryFirst, f6b, oracle, r, ret) ==
  [made |-> TRUE, step |-> step, rs |-> rs.name, block |-> b, offset |-> off,
   short |-> short, tryFirst |-> tryFirst, status |-> r.status, hex |-> r.hex,
   errs |-> r.errs, shift |-> r.shift, attempts |-> r.attempts,
   verdicts |-> [i \in 1..Len(r.attempts) |-> Accepts(oracle, r.attempts[i], f6b)],
   forced |-> r.forced, nth |-> passHist.calls + 1, accepted |-> ret.status,
   retNone |-> ret.hex = None, retErrs |-> ret.errs, f6b |-> f6b,
   prefixOk |-> oracle.prefixOk,
   prefixTries |-> [i \in 1..Len(r.attempts) |->
                      packAndTest(rs, oracle, r.attempts[i], f6b).tries]]

NoCheck ==
  [made |-> FALSE, decoded |-> {}, found |-> FALSE, ptr |-> -1, walk |-> << >>,
   unchanged |-> TRUE, entry |-> [i \in 0..5 |-> None]]

\* The record of a block0ThoroughCheck call: the blocks that held a payload
\* on entry, the result, the pointers walked, whether the list returned
\* equals the list on entry, and the list on entry.
CheckRecord(hb, c) ==
  [made |-> TRUE, decoded |-> { i \in 0..5 : hb[i] # None }, found |-> c.found,
   ptr |-> c.ptr, walk |-> c.walk, unchanged |-> c.hexBlocks = hb,
   entry |-> hb]

NoPass ==
  [calls |-> 0, okBlock |-> -1, okShift |-> NoShift, okStep |-> "none",
   first |-> 0]

NoResult ==
  [didErrCorrect |-> FALSE, resultStr |-> NoLine, isShort |-> FALSE,
   dumped |-> FALSE]

NoBlocks == [i \in 0..5 |-> None]

\* No extractBlockBits* call has been made.
NoSlicer == [fn |-> "none"]

\* server_978.py is not running.
NoServer == [pc |-> "none"]

\* hexErrs created with a zero for every block.
NoErrsZero == [i \in 0..5 |-> 0]

\* hexErrs = [99, 99, 99, 99, 99, 99]
NoErrs == [i \in 0..5 |-> ErrNotTried]

----------------------------------------------------------------------------
\* The initial state: the globals as the argument parser leaves them, and the
\* dispatcher about to read the first attribute header.

\* The command lines considered: every combination of the recovery options
\* (--nobzfb, --noftz, --f6b) without the failure options, and every
\* combination of the failure options (--ff, --fa, --se) with the default
\* recovery options, with and without --noftz.
Configs ==
  { c \in [ show_failed_fisb : BOOLEAN, show_failed_adsb : BOOLEAN,
            block_zero_fixed_bits : BOOLEAN, fix_trailing_zeros : BOOLEAN,
            replace_f6b : BOOLEAN, f6bArrayLen : { 0, MaxF6b },
            writingErrorFiles : BOOLEAN ] :
      /\ c.replace_f6b <=> (c.f6bArrayLen > 0)
      /\ \/ ~(c.show_failed_fisb \/ c.show_failed_adsb \/ c.writingErrorFiles)
         \/ (c.block_zero_fixed_bits /\ ~c.replace_f6b) }

\* The hint left behind by the block decoded last.
StaleShiftThatWorked == shiftThatWorked

\* decodeFisb, on entry: shiftThatWorked = -1.
InitialShiftThatWorked == NoShift

\* No frame: nothing has been read (hdr and buf count the bytes the two
\* reads returned, -1 for a read that was not made).
NoFrame ==
  [kind |-> "none", tx |-> 1, lead |-> NoLead, noisy |-> FALSE, hdr |-> -1,
   buf |-> -1]

Init ==
  /\ config \in Configs
  /\ pc = "read"
  /\ frame = NoFrame
  /\ out = << >>
  /\ result = NoResult
  /\ offset = 1
  /\ block = 0
  /\ hexBlocks = NoBlocks
  /\ hexErrs = NoErrs
  /\ shiftThatWorked = NoShift
  /\ attempt = 1
  /\ isShort = FALSE
  /\ tried = << >>
  /\ passHist = NoPass
  /\ call = NoCall
  /\ check = NoCheck
  /\ slicer = NoSlicer
  /\ server = NoServer

----------------------------------------------------------------------------
\* main: one pass of the read loop up to the call of process*Packet.

ReadFrame ==
  /\ pc = "read"
  /\ \/ \E tx \in 1..Len(TxFrames) :
            /\ frame' = [kind |-> "F", tx |-> tx, lead |-> NoLead,
                         noisy |-> TxFrames[tx].noisy, hdr |-> ATTRIBUTE_LEN,
                         buf |-> PacketLength(TRUE)]
            /\ pc' = "sweep"
            /\ isShort' = FALSE
            /\ shiftThatWorked' = InitialShiftThatWorked
     \/ \E rx \in 1..Len(RxAdsb) :
            /\ frame' = [kind |-> "A", tx |-> 1, lead |-> RxAdsb[rx].lead,
                         noisy |-> RxAdsb[rx].noisy, hdr |-> ATTRIBUTE_LEN,
                         buf |-> PacketLength(FALSE)]
            /\ pc' = "adsb"
            /\ isShort' = GuessShort(RxAdsb[rx].lead, 1)
            /\ shiftThatWorked' = NoShift
  /\ out' = << >>
  /\ offset' = 1
  /\ block' = 0
  /\ hexBlocks' = NoBlocks
  /\ hexErrs' = NoErrs
  /\ attempt' = 1
  /\ tried' = << >>
  /\ passHist' = NoPass
  /\ call' = NoCall
  /\ check' = NoCheck
  /\ result' = NoResult
  /\ UNCHANGED << config, slicer, server >>

\* The reads that the end of the input cuts short (hdr of the 30 attribute
\* bytes, then buf bytes of the packet, -1 when the packet read is not
\* reached) and after which the first use of what was read raises.
TruncatedReads ==
  { r \in [kind : { "F", "A" }, hdr : 1..ATTRIBUTE_LEN, buf : -1..MaxTruncated] :
      LET attrStr == SubSeq(AttrStr(r.kind), 1, r.hdr)
      IN IF AttrRaises(attrStr)
           THEN r.buf = -1
           ELSE /\ r.buf >= 0
                /\ r.hdr < ATTRIBUTE_LEN => r.buf = 0
                /\ BufferRaises(IsFisbPacket(attrStr), r.buf) }

\* main: the attribute read or the sample-buffer read is cut short by the end
\* of the input and the first use of what was read raises.  Nothing catches
\* the exception (main catches KeyboardInterrupt only): the process ends with
\* a traceback.
ReadTruncated ==
  /\ pc = "read"
  /\ \E r \in TruncatedReads :
       frame' = [NoFrame EXCEPT !.kind = r.kind, !.hdr = r.hdr, !.buf = r.buf]
  /\ pc' = "readError"
  /\ UNCHANGED << config, out, result, offset, block, hexBlocks, hexErrs,
                  shiftThatWorked, attempt, isShort, tried, passHist, call,
                  check, slicer, server >>

\* main: the end of the loop body.  The line, if any, has been written; the
\* results and the locals of process*Packet are dropped and the loop goes back
\* to the attribute read.  shiftThatWorked is left as the frame left it:
\* decodeFisb sets it on entry.
LoopBack ==
  /\ pc = "done"
  /\ pc' = "read"
  /\ frame' = NoFrame
  /\ out' = << >>
  /\ result' = NoResult
  /\ offset' = 1
  /\ block' = 0
  /\ hexBlocks' = NoBlocks
  /\ hexErrs' = NoErrs
  /\ attempt' = 1
  /\ isShort' = FALSE
  /\ tried' = << >>
  /\ passHist' = NoPass
  /\ call' = NoCall
  /\ check' = NoCheck
  /\ UNCHANGED << config, shiftThatWorked, slicer, server >>

\* main: the frame failed and its samples are to be written to the error
\* directory (result.dumped), and open() or write() raises OSError.  Nothing
\* catches it (main catches KeyboardInterrupt only): the process ends with a
\* traceback.  When the write succeeds the loop body ends (LoopBack).
DumpFails ==
  /\ pc = "done"
  /\ result.dumped
  /\ pc' = "dumpError"
  /\ UNCHANGED << config, frame, out, result, offset, block, hexBlocks,
                  hexErrs, shiftThatWorked, attempt, isShort, tried, passHist,
                  call, check, slicer, server >>

\* main: the attribute read returns nothing, the loop ends.
EndOfInput ==
  /\ pc = "read"
  /\ pc' = "exit"
  /\ frame' = [NoFrame EXCEPT !.hdr = 0]
  /\ UNCHANGED << config, out, result, offset, block, hexBlocks,
                  hexErrs, shiftThatWorked, attempt, isShort, tried, passHist,
                  call, check, slicer, server >>

----------------------------------------------------------------------------
\* decodeFisb / processFisbPacket.

\* The block loop without the test of hexBlocks[block]: the next block is b.
NextBlock(hb, b) == IF b >= NumBlocks THEN NumBlocks ELSE b

\* The first block at or after b that is still None, or 6.
RECURSIVE NextUndecoded(_, _)
NextUndecoded(hb, b) ==
  IF b >= NumBlocks THEN NumBlocks
  ELSE IF hb[b] = None THEN b
  ELSE NextUndecoded(hb, b + 1)

\* processFisbPacket printing the failure line after each pass that failed.
FisbFailLinesEachPass(off) ==
  IF config.show_failed_fisb THEN << "#FAILED-FIS-B" >> ELSE << >>

\* The lines processFisbPacket prints when the pass at offset `off` failed:
\* the failure line, when asked for, and only after the offset 2 pass.
FisbFailLines(off) ==
  IF off = 2 /\ config.show_failed_fisb THEN << "#FAILED-FIS-B" >> ELSE << >>

\* decodeFisb has returned (ok, hb, he) to processFisbPacket: the line is
\* formatted and printed by main, or the offset 2 pass starts, or the frame
\* has failed.
FisbReturn(ok, hb, he, ph, stw) ==
  /\ hexBlocks' = hb
  /\ hexErrs' = he
  /\ shiftThatWorked' = IF ~ok /\ offset = 1 THEN InitialShiftThatWorked ELSE stw
  /\ IF ok
       THEN /\ result' = [didErrCorrect |-> TRUE,
                          resultStr |-> fisbHexBlocksFormatted(hb, he),
                          isShort |-> FALSE, dumped |-> FALSE]
            /\ out' = Append(out, fisbHexBlocksFormatted(hb, he).tag)
            /\ pc' = "done"
            /\ passHist' = ph
            /\ UNCHANGED << offset, block >>
       ELSE IF offset = 1
         THEN /\ offset' = offset + 1
              /\ block' = NextUndecoded(hb, 0)
              /\ pc' = "sweep"
              /\ passHist' = [NoPass EXCEPT !.first = NextUndecoded(hb, 0)]
              /\ out' = out \o FisbFailLines(offset)
              /\ UNCHANGED result
         ELSE /\ result' = [didErrCorrect |-> FALSE,
                            resultStr |-> [tag |-> "", hex |-> << >>,
                                           rs |-> fisbHexErrsToStr(he)],
                            isShort |-> FALSE,
                            dumped |-> config.writingErrorFiles
                                       /\ config.show_failed_fisb]
              /\ out' = out \o FisbFailLines(offset)
              /\ pc' = "done"
              /\ passHist' = ph
              /\ UNCHANGED << offset, block >>

\* The code after the block loop: the final early-termination check.
AfterLoop(hb, he, ph, chk, stw) ==
  IF \E i \in 0..5 : hb[i] = None
    THEN \E c \in { block0ThoroughCheck(hb) } :
            /\ check' = CheckRecord(hb, c)
            /\ FisbReturn(c.found, c.hexBlocks, he, ph, stw)
    ELSE /\ check' = chk
         /\ FisbReturn(TRUE, hb, he, ph, stw)

\* `continue`: the loop goes on with the next block that is still None.
Continue(hb, he, ph, chk, stw) ==
  IF NextUndecoded(hb, block + 1) < NumBlocks
    THEN /\ block' = NextUndecoded(hb, block + 1)
         /\ pc' = "sweep"
         /\ hexBlocks' = hb
         /\ hexErrs' = he
         /\ shiftThatWorked' = stw
         /\ passHist' = ph
         /\ check' = chk
         /\ UNCHANGED << offset, result, out >>
    ELSE AfterLoop(hb, he, ph, chk, stw)

\* One iteration of the block loop up to the ordinary shift sweep and what
\* follows its success; after a failure the iteration goes on with the
\* block-zero tricks, the trailing-zero repair, or the break.
FisbSweep ==
  /\ pc = "sweep"
  /\ \E oracle \in Oracles(rsFisb, { TxBlocks[frame.tx][block] }, FALSE) :
     \E r \in { tryShiftBits(rsFisb, oracle, shiftThatWorked, FALSE, FALSE) } :
     \E hb \in { [hexBlocks EXCEPT ![block] = r.hex] } :
     \E c \in { IF r.status /\ block = 0 THEN block0ThoroughCheck(hb)
                                         ELSE [found |-> FALSE] } :
       LET he == [hexErrs EXCEPT ![block] = r.errs]
           ph == IF r.status
                   THEN [calls |-> passHist.calls + 1, okBlock |-> block,
                         okShift |-> r.shift, okStep |-> "sweep",
                         first |-> passHist.first]
                   ELSE [passHist EXCEPT !.calls = @ + 1]
       IN /\ call' = CallRecord("sweep", rsFisb, block, offset, FALSE,
                                shiftThatWorked, FALSE, oracle, r, r)
          /\ IF r.status
               THEN IF block = 0 /\ c.found
                      THEN /\ check' = CheckRecord(hb, c)
                           /\ FisbReturn(TRUE, c.hexBlocks, he, ph, r.shift)
                      ELSE Continue(hb, he, ph,
                             IF block = 0 THEN CheckRecord(hb, c) ELSE NoCheck,
                             r.shift)
               ELSE IF block = 0 /\ (config.replace_f6b
                                     \/ config.block_zero_fixed_bits)
                      THEN /\ pc' = "tricks"
                           /\ hexErrs' = he
                           /\ passHist' = ph
                           /\ check' = NoCheck
                           /\ UNCHANGED << hexBlocks, offset, block, result,
                                           out, shiftThatWorked >>
                      ELSE IF config.fix_trailing_zeros
                        THEN /\ pc' = "repair"
                             /\ hexErrs' = he
                             /\ passHist' = ph
                             /\ check' = NoCheck
                             /\ UNCHANGED << hexBlocks, offset, block, result,
                                             out, shiftThatWorked >>
                        ELSE AfterLoop(hexBlocks, he, ph, NoCheck,
                                       shiftThatWorked)
  /\ UNCHANGED << config, frame, attempt, isShort, tried, slicer, server >>

\* The extra checks for block 0 after its ordinary sweep failed.
FisbBlockZeroTricks ==
  /\ pc = "tricks"
  /\ \E oracle \in Oracles(rsFisb, { TxBlocks[frame.tx][block] },
                           config.replace_f6b) :
     \E t \in { blockZeroTricks(oracle, hexBlocks) } :
     \E c \in { IF t.status THEN block0ThoroughCheck(t.hexBlocks)
                            ELSE [found |-> FALSE] } :
       LET he == [hexErrs EXCEPT ![block] = t.errs]
           ph == IF t.status
                   THEN [calls |-> passHist.calls + 1, okBlock |-> block,
                         okShift |-> t.sweep.shift, okStep |-> "tricks",
                         first |-> passHist.first]
                   ELSE [passHist EXCEPT !.calls = @ + 1]
       IN /\ call' = CallRecord("tricks", rsFisb, block, offset, FALSE, NoShift,
                                config.replace_f6b, oracle, t.sweep,
                                [status |-> t.status, hex |-> t.hexBlocks[0],
                                 errs |-> t.errs])
          /\ IF t.status
               THEN IF c.found
                      THEN /\ check' = CheckRecord(t.hexBlocks, c)
                           /\ FisbReturn(TRUE, c.hexBlocks, he, ph,
                                         shiftThatWorked)
                      ELSE Continue(t.hexBlocks, he, ph,
                                    CheckRecord(t.hexBlocks, c), shiftThatWorked)
               ELSE IF config.fix_trailing_zeros
                 THEN /\ pc' = "repair"
                      /\ hexErrs' = he
                      /\ passHist' = ph
                      /\ check' = NoCheck
                      /\ UNCHANGED << hexBlocks, offset, block, result, out,
                                      shiftThatWorked >>
                 ELSE AfterLoop(t.hexBlocks, he, ph, NoCheck, shiftThatWorked)
  /\ UNCHANGED << config, frame, attempt, isShort, tried, slicer, server >>

\* fixZeros: the values startValue can have when the second loop is entered
\* (576 at first, i - 128 after the quarter [i - 128, i) was found to be
\* zeros; with 64 the second loop is skipped).
QuarterStarts == { 576, 448, 320, 192 }

\* fixZeros, second loop: the start of the zero region after block[i] was
\* found above the threshold, with startValue - 128 < i < startValue.
RefinedStart(startValue, i) ==
  LET newStartValue == i + 8
      rem == newStartValue % 8
      aligned == IF rem # 0 THEN newStartValue + (8 - rem) ELSE newStartValue
  IN IF aligned > startValue THEN startValue ELSE aligned

\* fixZeros: the values newStartValue can have at `block[newStartValue:576]
\* = ...`: startValue itself (64 included) when the second loop finds no
\* sample above the threshold or is skipped, the refined start otherwise.
FinalStarts ==
  QuarterStarts \cup { 64 }
    \cup UNION { { RefinedStart(startValue, i) :
                     i \in (startValue - 127)..(startValue - 1) } :
                   startValue \in QuarterStarts }

\* The trailing-zero repair of a block that is still undecoded: fixZeros
\* calls computePercentAboveAveOne(sample, aveOne, 128, 1.10), a function of
\* three parameters, in the first pass of its first loop.  The TypeError is
\* caught nowhere (main catches KeyboardInterrupt only): the process ends.
FisbFixZeros ==
  /\ pc = "repair"
  /\ pc' = "crashed"
  /\ call' = NoCall
  /\ check' = NoCheck
  /\ UNCHANGED << config, frame, out, result, offset, block, hexBlocks,
                  hexErrs, shiftThatWorked, attempt, isShort, tried, passHist,
                  slicer, server >>

----------------------------------------------------------------------------
\* processAdsbPacket: one decodeAdsb call and what follows it.

AdsbAttempt ==
  /\ pc = "adsb"
  /\ LET try == AdsbAttempts(offset, isShort)[attempt]
         rs == IF try[2] THEN rsAdsbS ELSE rsAdsbL
     IN \E oracle \in Oracles(rs, IF try[2] THEN AdsbMsgs.short ELSE AdsbMsgs.long,
                              FALSE) :
          \E d \in { decodeAdsb(oracle, try[2]) } :
             /\ call' = CallRecord("adsb", rs, 0, try[1], try[2], NoShift,
                                   FALSE, oracle, d.sweep,
                                   [status |-> d.status, hex |-> d.hexBlock,
                                    errs |-> d.errs])
             /\ tried' = Append(tried, try)
             /\ IF d.status
                  THEN /\ result' = [didErrCorrect |-> TRUE,
                                     resultStr |-> adsbHexBlockFormatted(d.hexBlock,
                                                                         d.errs),
                                     isShort |-> isShort, dumped |-> FALSE]
                       /\ out' = Append(out, adsbHexBlockFormatted(d.hexBlock,
                                                                    d.errs).tag)
                       /\ pc' = "done"
                       /\ UNCHANGED attempt
                  ELSE IF attempt < 4
                    THEN /\ attempt' = attempt + 1
                         /\ UNCHANGED << pc, result, out >>
                    ELSE /\ result' = [didErrCorrect |-> FALSE, resultStr |-> NoLine,
                                       isShort |-> isShort,
                                       dumped |-> config.writingErrorFiles
                                                  /\ config.show_failed_adsb]
                         /\ out' = IF config.show_failed_adsb
                                     THEN Append(out, "#FAILED-ADS-B")
                                     ELSE out
                         /\ pc' = "done"
                         /\ UNCHANGED attempt
  /\ passHist' = [passHist EXCEPT !.calls = 0]
  /\ check' = NoCheck
  /\ UNCHANGED << config, frame, offset, block, hexBlocks, hexErrs,
                  shiftThatWorked, isShort, slicer, server >>

----------------------------------------------------------------------------
Next ==
  \/ ReadFrame
  \/ ReadTruncated
  \/ LoopBack
  \/ DumpFails
  \/ EndOfInput
  \/ FisbSweep
  \/ FisbBlockZeroTricks
  \/ FisbFixZeros
  \/ AdsbAttempt

Spec == Init /\ [][Next]_vars

----------------------------------------------------------------------------
\* The slicers and the candidates of tryShiftBits, sample by sample.  An
\* array of samples is the sequence of the indices it was read from; its
\* values are those of a received buffer.  A candidate is kept in units of
\* 1/200: shiftBits returns (bits + neighborBits * shiftAmount) / 2 and the
\* shift amounts are hundredths.

\* Number of received buffers considered.
NumPatterns == 2

\* The received buffer p: the value of the sample at index idx.
Sample(p, idx) == ((((2 * p) + 1) * idx + p) % 7) - 3

\* The number of int32 samples of a packet.
NumSamples(isFisbPacket) == PacketLength(isFisbPacket) \div 4

\* The row of 8 a slice fills (numpy repeats a slice of one element).
Broadcast(slice) == IF Len(slice) = 1 THEN [b \in 1..8 |-> slice[1]] ELSE slice

\* extractBlockBitsFisb: the three holders of 92 rows of 8, reshaped to one
\* row of 736 (for an array on which no row assignment raises).
extractBlockBitsFisb(n, off, blockNumber) ==
  [bits |-> [k \in 1..(92 * 8) |->
       Broadcast(FisbWordSlices(n, off, blockNumber, (k - 1) \div 8).bits)
         [((k - 1) % 8) + 1]],
   bitsBefore |-> [k \in 1..(92 * 8) |->
       Broadcast(FisbWordSlices(n, off, blockNumber, (k - 1) \div 8).bitsBefore)
         [((k - 1) % 8) + 1]],
   bitsAfter |-> [k \in 1..(92 * 8) |->
       Broadcast(FisbWordSlices(n, off, blockNumber, (k - 1) \div 8).bitsAfter)
         [((k - 1) % 8) + 1]]]

\* extractBlockBitsAdsb
extractBlockBitsAdsb(n, off, short) ==
  LET numBytes == IF short THEN 30 ELSE 48
  IN [bits |-> Slice(n, off, numBytes * 16, 2),
      bitsBefore |-> Slice(n, off - 1, (numBytes * 16) - 1, 2),
      bitsAfter |-> Slice(n, off + 1, (numBytes * 16) + 1, 2)]

\* shiftBits with the alternative formula of its comment,
\* ((neighborBits - bits) * shiftAmount) + bits, in units of 1/200.
shiftBitsAlternative(bits, neighborBits, shiftAmount) ==
  [k \in 1..Len(bits) |->
     (2 * (neighborBits[k] - bits[k]) * shiftAmount) + (200 * bits[k])]

\* shiftBits, in units of 1/200, for a shift amount in hundredths.
shiftBits(bits, neighborBits, shiftAmount) ==
  [k \in 1..Len(bits) |-> (100 * bits[k]) + (neighborBits[k] * shiftAmount)]

\* The fixed bits of block 0 with 'position valid' (bit 47) forced as well.
ForcedPositiveWith47 == { 47, 48, 50 }

\* The indices tryShiftBits sets to +10000 and to -10000.
ForcedPositive == { 48, 50 }
ForcedNegative == { 49, 60, 61, 62, 63, 73, 74, 75 }

\* shiftedBits[...] = +/-10000 for the fixed bits (array index k - 1), for an
\* array kept in units of 1/unit.
ForceFixedBits(shiftedBits, unit) ==
  [k \in 1..Len(shiftedBits) |->
     IF (k - 1) \in ForcedPositive THEN unit * 10000
     ELSE IF (k - 1) \in ForcedNegative THEN -(unit * 10000)
     ELSE shiftedBits[k]]

\* The record of an extractBlockBits* call: the arguments, the three arrays
\* returned (as sample indices), the values of `bits`, and the table loop of
\* tryShiftBits not started.
SlicerRecord(fn, p, off, blockNumber, short, fixed, arrays) ==
  [fn |-> fn, p |-> p, off |-> off, blockNumber |-> blockNumber,
   short |-> short, fixed |-> fixed, bits |-> arrays.bits,
   bitsBefore |-> arrays.bitsBefore, bitsAfter |-> arrays.bitsAfter,
   i |-> 0, cur |-> [k \in 1..Len(arrays.bits) |-> Sample(p, arrays.bits[k])],
   cand |-> << >>]

\* The startup flags without any option on the command line.
DefaultConfig ==
  [show_failed_fisb |-> FALSE, show_failed_adsb |-> FALSE,
   block_zero_fixed_bits |-> TRUE, fix_trailing_zeros |-> TRUE,
   replace_f6b |-> FALSE, f6bArrayLen |-> 0, writingErrorFiles |-> FALSE]

SlicerInit ==
  /\ config = DefaultConfig
  /\ pc = "read"
  /\ frame = NoFrame
  /\ out = << >>
  /\ result = NoResult
  /\ offset = 1
  /\ block = 0
  /\ hexBlocks = NoBlocks
  /\ hexErrs = NoErrs
  /\ shiftThatWorked = NoShift
  /\ attempt = 1
  /\ isShort = FALSE
  /\ tried = << >>
  /\ passHist = NoPass
  /\ call = NoCall
  /\ check = NoCheck
  /\ slicer = NoSlicer
  /\ server = NoServer

\* decodeFisb / blockZeroTricks: the samples of one block are extracted from
\* a full packet; block0FixedBits can be set for block 0 only.
ExtractFisb ==
  /\ slicer.fn = "none"
  /\ \E p \in 1..NumPatterns, off \in 1..2, blockNumber \in 0..5, fixed \in BOOLEAN :
       /\ fixed => blockNumber = 0
       /\ slicer' = SlicerRecord("extractBlockBitsFisb", p, off, blockNumber,
                                 FALSE, fixed,
                                 extractBlockBitsFisb(NumSamples(TRUE), off,
                                                      blockNumber))
  /\ UNCHANGED << decoderVars, server >>

\* decodeAdsb: the samples of a short or a long packet are extracted.
ExtractAdsb ==
  /\ slicer.fn = "none"
  /\ \E p \in 1..NumPatterns, off \in 1..2, short \in BOOLEAN :
       slicer' = SlicerRecord("extractBlockBitsAdsb", p, off, 0, short, FALSE,
                              extractBlockBitsAdsb(NumSamples(FALSE), off, short))
  /\ UNCHANGED << decoderVars, server >>

\* tryShiftBits, called without a hint: one pass of the loop over
\* SHIFT_BY_PROBABILITY whose candidate the decoder rejects.  With shift 0
\* shiftedBits is `bits` itself, so the fixed bits are written into `bits`.
ShiftCandidate ==
  /\ slicer.fn # "none"
  /\ slicer.i < Len(SHIFT_BY_PROBABILITY)
  /\ \E shift \in { SHIFT_BY_PROBABILITY[slicer.i + 1] } :
     \E bits \in { IF shift = 0 /\ slicer.fixed THEN ForceFixedBits(slicer.cur, 1)
                                               ELSE slicer.cur } :
       LET neighborBits ==
             [k \in 1..Len(bits) |->
                Sample(slicer.p, IF shift > 0 THEN slicer.bitsBefore[k]
                                              ELSE slicer.bitsAfter[k])]
           shiftedBits ==
             IF shift = 0 THEN [k \in 1..Len(bits) |-> 200 * bits[k]]
             ELSE shiftBits(bits, neighborBits, IF shift > 0 THEN shift ELSE -shift)
       IN slicer' = [slicer EXCEPT !.fn = "tryShiftBits", !.i = @ + 1,
                                   !.cur = bits,
                                   !.cand = IF slicer.fixed /\ shift # 0
                                              THEN ForceFixedBits(shiftedBits, 200)
                                              ELSE shiftedBits]
  /\ UNCHANGED << decoderVars, server >>

SlicerNext ==
  \/ ExtractFisb
  \/ ExtractAdsb
  \/ ShiftCandidate

SlicerSpec == SlicerInit /\ [][SlicerNext]_vars

----------------------------------------------------------------------------
\* server_978.py: the fan-out server.  A character is its code; the input
\* stream, the buffer and a line are sequences of characters.  One trip
\* through main's select loop is the readable loop (the listening socket
\* first, then standard input, then the clients, as they stand in `inputs`),
\* extractWholeLine with the writable loop, and the exceptional loop.

MAX_CONNECTIONS == 10

\* '\n'
NL == 10

filenoStdin == 0
filenoServer == 3

\* The descriptors the process can hold for client sockets.
MaxClients == 11

\* The close events (a disconnect or an exception) of one run.
MaxCloses == 1

\* The characters one sys.stdin.read returns at most (100 in the source).
ReadSize == 2

\* What decode-978 writes: a partial first line, whole lines, empty lines, a
\* partial last line, no newline at all.
Streams ==
  { << 97, NL, 98, 99, NL, 100 >>,
    << NL, NL, 97, NL >>,
    << 97, 98 >> }

ClientFilenos == (filenoServer + 1)..(filenoServer + MaxClients)

\* buf.find('\n'): the 0-based index of the first newline, or -1.
Find(buf) ==
  IF \E i \in 1..Len(buf) : buf[i] = NL
    THEN (CHOOSE i \in 1..Len(buf) :
            buf[i] = NL /\ \A j \in 1..(i - 1) : buf[j] # NL) - 1
    ELSE -1

\* What is left of buf after the newline at idx.
AfterNewline(buf, idx) ==
  IF Len(buf) = idx + 1 THEN << >> ELSE SubSeq(buf, idx + 2, Len(buf))

\* extractWholeLine without the isFirstLine branch: the characters before the
\* first newline are returned as a line.
extractWholeLineKeepsPartial(buf, isFirstLine) ==
  LET idx == Find(buf)
  IN IF idx = -1
       THEN [line |-> None, buf |-> buf, isFirstLine |-> FALSE]
       ELSE [line |-> SubSeq(buf, 1, idx + 1),
             buf |-> AfterNewline(buf, idx),
             isFirstLine |-> FALSE]

\* extractWholeLine that cuts the buffer one character too far after a line.
extractWholeLineSkipsOne(buf, isFirstLine) ==
  IF isFirstLine /\ Find(buf) = -1
    THEN [line |-> None, buf |-> buf, isFirstLine |-> TRUE]
    ELSE LET kept == IF isFirstLine THEN AfterNewline(buf, Find(buf)) ELSE buf
             idx == Find(kept)
         IN IF idx = -1
              THEN [line |-> None, buf |-> kept, isFirstLine |-> FALSE]
              ELSE [line |-> SubSeq(kept, 1, idx + 1),
                    buf |-> AfterNewline(kept, idx + 1),
                    isFirstLine |-> FALSE]

\* extractWholeLine(buf, isFirstLine): the tuple (line, buf, isFirstLine).
extractWholeLine(buf, isFirstLine) ==
  IF isFirstLine /\ Find(buf) = -1
    THEN [line |-> None, buf |-> buf, isFirstLine |-> TRUE]
    ELSE LET kept == IF isFirstLine THEN AfterNewline(buf, Find(buf)) ELSE buf
             idx == Find(kept)
         IN IF idx = -1
              THEN [line |-> None, buf |-> kept, isFirstLine |-> FALSE]
              ELSE [line |-> SubSeq(kept, 1, idx + 1),
                    buf |-> AfterNewline(kept, idx),
                    isFirstLine |-> FALSE]

\* list.remove(fno)
ListRemove(list, fno) == SelectSeq(list, LAMBDA e : e # fno)

\* del filenoDict[fno]
DictDelete(dict, fno) == [f \in (DOMAIN dict) \ { fno } |-> dict[f]]

\* No sendall call was made by the last step.
NoSent == [fno |-> -1, chunk |-> None]

\* The state of main before the loop: the listening socket is bound, no
\* client is connected, nothing has been read.
ServerStart(stream) ==
  [pc |-> "round", stream |-> stream, pos |-> 0,
   stdinBuffer |-> << >>, isFirstLine |-> TRUE,
   inputs |-> << filenoServer, filenoStdin >>, outputs |-> << >>,
   filenoDict |-> (filenoServer :> "server"),
   accepted |-> -1, closed |-> { }, closes |-> 0, sent |-> NoSent,
   line |-> None, sentTo |-> { }]

ServerInit ==
  /\ config = DefaultConfig
  /\ pc = "read"
  /\ frame = NoFrame
  /\ out = << >>
  /\ result = NoResult
  /\ offset = 1
  /\ block = 0
  /\ hexBlocks = NoBlocks
  /\ hexErrs = NoErrs
  /\ shiftThatWorked = NoShift
  /\ attempt = 1
  /\ isShort = FALSE
  /\ tried = << >>
  /\ passHist = NoPass
  /\ call = NoCall
  /\ check = NoCheck
  /\ slicer = NoSlicer
  /\ \E stream \in Streams : server = ServerStart(stream)

\* select.select returns: a new trip through the loop begins when the
\* exceptional loop of the last one has ended.
Selected(s) ==
  IF s.pc = "round"
    THEN [s EXCEPT !.accepted = -1, !.closed = { }, !.sent = NoSent,
                   !.sentTo = { }]
    ELSE [s EXCEPT !.sent = NoSent, !.sentTo = { }]

\* Readable loop, fno is filenoServer: a connection is accepted.  accept
\* returns the lowest free descriptor.
Accept ==
  /\ server.pc = "round"
  /\ \E f \in { f \in ClientFilenos :
                  /\ f \notin DOMAIN server.filenoDict
                  /\ \A g \in ClientFilenos :
                       g < f => g \in DOMAIN server.filenoDict } :
       server' = [Selected(server) EXCEPT
                    !.pc = "accepted",
                    !.filenoDict = (f :> "client") @@ @,
                    !.inputs = Append(@, f),
                    !.outputs = Append(@, f),
                    !.accepted = f]
  /\ UNCHANGED << decoderVars, slicer >>

\* Readable loop, fno is filenoStdin: up to ReadSize characters are appended
\* to stdinBuffer (none at end of input).
ReadStdin ==
  /\ server.pc \in { "round", "accepted" }
  /\ \E n \in { IF k <= Len(server.stream) - server.pos
                  THEN k ELSE Len(server.stream) - server.pos : k \in 1..ReadSize } :
       server' = [Selected(server) EXCEPT
                    !.pc = "stdin",
                    !.stdinBuffer = @ \o SubSeq(server.stream, server.pos + 1,
                                                server.pos + n),
                    !.pos = @ + n]
  /\ UNCHANGED << decoderVars, slicer >>

\* Readable loop, some other socket: recv returns no data (or the
\* connection was reset), the client is closed and removed.
ClientDisconnect ==
  /\ server.pc \in { "round", "accepted", "stdin", "clients" }
  /\ server.closes < MaxCloses
  /\ \E fno \in { f \in DOMAIN server.filenoDict :
                    f # filenoServer /\ f # Selected(server).accepted } :
       server' = [Selected(server) EXCEPT
                    !.pc = "clients",
                    !.outputs = ListRemove(@, fno),
                    !.inputs = ListRemove(@, fno),
                    !.filenoDict = DictDelete(@, fno),
                    !.closed = @ \cup { fno },
                    !.closes = @ + 1]
  /\ UNCHANGED << decoderVars, slicer >>

\* extractWholeLine and the writable loop: the line, if there is one, is
\* passed to sendall for the clients select reported writable that are still
\* in filenoDict.  select was given the outputs of the start of the trip: a
\* client accepted on this trip is not among them, and a client whose send
\* buffer is full is not reported (at most one such client is drawn).
\* `line` is the variable of main, `sentTo` the sockets sendall was called
\* for, `sent` one of these calls.
SendLine ==
  /\ server.pc # "crashed"
  /\ LET s == Selected(server)
         r == extractWholeLine(s.stdinBuffer, s.isFirstLine)
         given == ((DOMAIN s.filenoDict) \cup s.closed)
                    \ { filenoServer, filenoStdin, s.accepted }
         reports == IF r.line = None THEN { { } }
                    ELSE { given } \cup { given \ { f } : f \in given }
     IN \E writable \in reports :
          LET to == writable \cap DOMAIN s.filenoDict
          IN \E fno \in IF to # { } THEN to ELSE { -1 } :
               server' = [s EXCEPT
                            !.pc = "round",
                            !.stdinBuffer = r.buf,
                            !.isFirstLine = r.isFirstLine,
                            !.line = r.line,
                            !.sentTo = to,
                            !.sent = IF fno = -1 THEN NoSent
                                     ELSE [fno |-> fno, chunk |-> r.line]]
  /\ UNCHANGED << decoderVars, slicer >>

\* Exceptional loop: the socket is closed and removed.  A socket the
\* readable loop of this trip removed is no key of filenoDict any more.
Exceptional ==
  /\ server.pc = "round"
  /\ \E fno \in (DOMAIN server.filenoDict \cup server.closed)
                  \ { filenoServer, server.accepted } :
       IF fno \in DOMAIN server.filenoDict
         THEN /\ server.closes < MaxCloses
              /\ server' = [server EXCEPT
                              !.outputs = ListRemove(@, fno),
                              !.inputs = ListRemove(@, fno),
                              !.filenoDict = DictDelete(@, fno),
                              !.closes = @ + 1,
                              !.sent = NoSent,
                              !.sentTo = { }]
         ELSE server' = [server EXCEPT !.pc = "crashed", !.sent = NoSent,
                                       !.sentTo = { }]
  /\ UNCHANGED << decoderVars, slicer >>

ServerNext ==
  \/ Accept
  \/ ReadStdin
  \/ ClientDisconnect
  \/ SendLine
  \/ Exceptional

ServerSpec == ServerInit /\ [][ServerNext]_vars

----------------------------------------------------------------------------
\* Properties.

\* A FIS-B frame has been processed and reported a success.
FisbSuccess == pc = "done" /\ frame.kind = "F" /\ result.didErrCorrect

\* An ADS-B frame has been processed and reported a success.
AdsbSuccess == pc = "done" /\ frame.kind = "A" /\ result.didErrCorrect

\* C1: whenever a FIS-B frame is reported a success (after the offset 1 or
\* the offset 2 pass, by whichever steps), each of the six hexBlocks entries
\* is a payload of 72 bytes (144 hex digits), and the line that is written
\* carries 6 x 144 = 864 hex digits.
C1_SuccessHasSixBlocks ==
  FisbSuccess =>
    /\ \A i \in 0..5 : hexBlocks[i] # None /\ Len(hexBlocks[i]) = 144
    /\ result.resultStr.tag = "+"
    /\ Len(result.resultStr.hex) = 864
    /\ out = << "+" >>

\* C1 witness: a success of the offset 2 pass in which the early-termination
\* check after the block loop filled the last blocks.
C1_Witness ==
  /\ FisbSuccess
  /\ offset = 2
  /\ check.made /\ check.found
  /\ check.decoded = { 0, 1 }
  /\ hexBlocks[0] # ZeroBlockHex
  /\ hexBlocks[5] = ZeroBlockHex

\* C2: every ADS-B success has payload type code 0 and 36 hex digits, or a
\* payload type code in 1..6 and 68 hex digits, where the payload type code
\* is (byte0 >> 3) & 0x1F.
C2_PayloadTypeMatchesLength ==
  AdsbSuccess =>
    LET hex == result.resultStr.hex
        byte0 == 16 * hex[1] + hex[2]
        PTC == (byte0 \div 8) % 32
    IN \/ PTC = 0 /\ Len(hex) = 36
       \/ PTC >= 1 /\ PTC <= 6 /\ Len(hex) = 68

\* C2 witness: a long message of payload type code 6 accepted at the third
\* attempt.
C2_Witness ==
  /\ AdsbSuccess
  /\ Len(tried) = 3
  /\ Len(result.resultStr.hex) = 68
  /\ 16 * result.resultStr.hex[1] + result.resultStr.hex[2] = 48

\* C3: when every decode attempt of a frame fails, the frame ends as a
\* failure of that frame and the dispatcher goes on with the next frame: no
\* decode failure ends the process.
C3_NoFailureEndsTheProcess == pc # "crashed"

\* C4: processAdsbPacket makes its attempts in the order (offset 1, hint),
\* (offset 1, opposite), (offset 2, opposite), (offset 2, hint); it goes on
\* to the next attempt only after a rejected one, stops at the first accepted
\* one, and reports a failure only after four rejected attempts.
C4_AttemptOrder ==
  frame.kind = "A" =>
    LET order == << << 1, isShort >>, << 1, ~isShort >>, << 2, ~isShort >>,
                    << 2, isShort >> >>
    IN /\ Len(tried) <= 4
       /\ \A i \in 1..Len(tried) : tried[i] = order[i]
       /\ call.made <=> tried # << >>
       /\ pc = "adsb" => (attempt = Len(tried) + 1 /\ ~call.accepted)
       /\ pc = "done" =>
            /\ tried # << >>
            /\ result.didErrCorrect <=> call.accepted
            /\ ~result.didErrCorrect => Len(tried) = 4

\* C4 witness: the fourth attempt, (offset 2, hint), is the accepted one.
C4_Witness ==
  /\ AdsbSuccess
  /\ Len(tried) = 4
  /\ tried[4] = << 2, isShort >>
  /\ call.accepted

\* C5: the short/long hint is "short" exactly when the five samples at the
\* indices 1, 3, 5, 7, 9 are all <= 0.
C5_ShortIffAllNonPositive ==
  frame.kind = "A" => (isShort <=> \A i \in 1..5 : frame.lead[i] <= 0)

\* C6: when the Reed-Solomon decoder succeeds in an ADS-B attempt and the
\* payload type / length check rejects the result, decodeAdsb returns
\* (False, None, 98), no line of a decoded packet is written, and
\* processAdsbPacket goes on with the next attempt (the frame fails only when
\* that was the fourth).
C6_RejectedDecodeIsAFailure ==
  (call.made /\ call.step = "adsb" /\ call.status /\ ~call.accepted) =>
    /\ call.retNone
    /\ call.retErrs = 98
    /\ \A i \in 1..Len(out) : out[i] # "-"
    /\ IF Len(tried) < 4
         THEN pc = "adsb" /\ attempt = Len(tried) + 1 /\ out = << >>
         ELSE pc \in { "done", "dumpError" } /\ ~result.didErrCorrect

\* C6 witness: the decoder succeeded in the second attempt, the check
\* rejected the result, and the third attempt is next.
C6_Witness ==
  /\ call.made /\ call.step = "adsb" /\ call.status /\ ~call.accepted
  /\ Len(tried) = 2
  /\ pc = "adsb" /\ attempt = 3

\* C7: within one pass of decodeFisb, when block i has been decoded with
\* shift s, by whichever step, tryShiftBits is called for block i + 1 with
\* tryFirst = s, and s is the first shift that is tried.
C7_HintIsShiftOfPreviousBlock ==
  [][ (pc = "sweep" /\ passHist.okBlock >= 0 /\ passHist.okBlock = block - 1)
        => /\ call'.tryFirst = passHist.okShift
           /\ call'.attempts[1] = passHist.okShift ]_vars

\* C8: tryShiftBits tries the hint first when it has one, then the 37 table
\* entries in table order without the entry equal to the hint; it returns at
\* the first attempt the decoder accepts, with the payload, error count and
\* shift of that attempt, and returns (False, None, 98, -1) only after every
\* attempt was rejected.
C8_HintThenTable ==
  call.made =>
    LET table == SelectSeq(SHIFT_BY_PROBABILITY,
                           LAMBDA shift : shift # call.tryFirst)
        order == IF call.tryFirst # NoShift THEN << call.tryFirst >> \o table
                                            ELSE table
        n == Len(call.attempts)
        rs == IF call.rs = "rsFisb" THEN rsFisb
              ELSE IF call.rs = "rsAdsbS" THEN rsAdsbS ELSE rsAdsbL
    IN /\ Len(SHIFT_BY_PROBABILITY) = 37
       /\ n >= 1 /\ n <= Len(order)
       /\ \A i \in 1..n : call.attempts[i] = order[i]
       /\ \A i \in 1..(n - 1) : ~call.verdicts[i]
       /\ call.status =>
            /\ call.verdicts[n]
            /\ call.shift = call.attempts[n]
            /\ call.hex # None /\ Len(call.hex) = 2 * rs.k
            /\ call.rs = "rsFisb" =>
                 call.hex = Hex(TxBlocks[frame.tx][call.block])
            /\ call.errs = IF frame.noisy THEN rs.roots \div 2 ELSE 0
       /\ ~call.status =>
            /\ n = Len(order)
            /\ ~call.verdicts[n]
            /\ call.hex = None /\ call.errs = 98 /\ call.shift = NoShift

\* C8 witness: a call with a hint whose candidate is rejected, decoded by the
\* first entry of the table.
C8_Witness ==
  /\ call.made
  /\ call.tryFirst = -75
  /\ call.attempts = << -75, 0 >>
  /\ call.status /\ call.shift = 0

\* C9: the first tryShiftBits call of every decodeFisb pass and the call of
\* every decodeAdsb attempt has no hint, and the first shift it tries is 0.
C9_FirstShiftIsZero ==
  (call.made /\ call.nth = 1) =>
    /\ call.tryFirst = NoShift
    /\ call.attempts[1] = 0

\* C9 witness: the first call of an offset 2 pass, for block 2, after block 1
\* was decoded with shift -0.75 in the offset 1 pass.
C9_Witness ==
  /\ call.made /\ call.nth = 1 /\ call.step = "sweep"
  /\ call.offset = 2 /\ call.block = 2
  /\ call.attempts[1] = 0
  /\ hexBlocks[1] # None

\* Byte p of the payload that was transmitted.
SentByte(p) == TxBlocks[frame.tx][p \div 72][(p % 72) + 1]

\* The frame length read at byte pointer p.
SentLength(p) == (SentByte(p) * 2) + (SentByte(p + 1) \div 128)

\* C10: block0ThoroughCheck starts at byte 8 of the decoded blocks that
\* follow one another from block 0, reads L = (payload[p] << 1) |
\* (payload[p + 1] >> 7) and goes on at p + L + 2; when it reads L = 0 at p it
\* sets the blocks ((p + 1) div 72) + 1 .. 5 to 72 zero bytes, leaves the
\* blocks 0 .. (p + 1) div 72 as they were decoded, and returns success.
C10_WalkAndFill ==
  (check.made /\ 0 \in check.decoded) =>
    LET ptrs == Append(check.walk, check.ptr)
        avail == 72 * Cardinality({ b \in 0..4 :
                                      \A a \in 0..b : a \in check.decoded })
    IN /\ ptrs[1] = 8
       /\ \A k \in 1..Len(check.walk) :
            /\ ptrs[k] + 1 < avail
            /\ SentLength(ptrs[k]) # 0
            /\ ptrs[k + 1] = ptrs[k] + SentLength(ptrs[k]) + 2
       /\ check.found <=> (check.ptr + 1 < avail /\ SentLength(check.ptr) = 0)
       /\ check.found =>
            /\ FisbSuccess
            /\ \A i \in 0..5 :
                 hexBlocks[i] = IF i >= ((check.ptr + 1) \div 72) + 1
                                  THEN ZeroBlockHex
                                  ELSE Hex(TxBlocks[frame.tx][i])

\* C10 witness: L = 0 is read at pointer 71, whose second byte lies in block
\* 1; block 1, decoded, is left as it is and the blocks 2..5 are zeros.
C10_Witness ==
  /\ check.made /\ check.found
  /\ check.walk = << 8 >> /\ check.ptr = 71
  /\ hexBlocks[1] # ZeroBlockHex /\ hexBlocks[1] # None
  /\ hexBlocks[2] = ZeroBlockHex

\* C11: when the walk of block0ThoroughCheck moves past the decoded bytes it
\* has without reading L = 0, or block 0 is undecoded, the check returns
\* failure and every hexBlocks entry is as it was on entry: the decoded blocks
\* hold their payload, the others are still None.
C11_FailedCheckLeavesBlocks ==
  (check.made /\ ~check.found) =>
    /\ check.unchanged
    /\ 0 \notin check.decoded => (check.walk = << >> /\ check.ptr = -1)
    /\ \A i \in 0..5 :
         hexBlocks[i] = IF i \in check.decoded THEN Hex(TxBlocks[frame.tx][i])
                                               ELSE None

\* C11 witness: the walk over the blocks 0 and 1 went by two inner frames and
\* ended past the 144 bytes it had.
C11_Witness ==
  /\ check.made /\ ~check.found
  /\ check.decoded = { 0, 1 }
  /\ Len(check.walk) = 2
  /\ check.ptr + 1 >= 144
  /\ hexBlocks[2] = None

\* The block i of a successful frame was set to zeros by the early-termination
\* check, not decoded.
FilledByCheck(i) == check.made /\ check.found /\ i \notin check.decoded

\* C12 (as stated): in every FIS-B success line each of the six fields e0..e5
\* is an RS error count in [0, 20]; 98 and 99 never appear.
C12_NoSentinelInSuccessLine ==
  FisbSuccess => \A i \in 1..6 : result.resultStr.rs[i] \in 0..20

\* C12 (amended): in every FIS-B success line the field e_i is hexErrs[i]; it
\* is the RS error count of block i, in [0, 20], when block i held a decoded
\* payload, and it is 99 (never attempted) or 98 (last attempt failed) when
\* block i was set to zeros by the early-termination check.
C12_ErrorFieldsOfSuccessLine ==
  FisbSuccess =>
    \A i \in 0..5 :
      /\ result.resultStr.rs[i + 1] = hexErrs[i]
      /\ IF FilledByCheck(i)
           THEN hexErrs[i] \in { ErrFailed, ErrNotTried }
                /\ hexBlocks[i] = ZeroBlockHex
           ELSE hexErrs[i] \in 0..rsFisb.roots

\* C12 witness: a success line whose fields are two error counts, then 98 for
\* the block whose sweep failed, then 99 for the blocks never attempted.
C12_Witness ==
  /\ FisbSuccess
  /\ result.resultStr.rs[1] = 10 /\ result.resultStr.rs[2] = 10
  /\ result.resultStr.rs[3] = 98
  /\ result.resultStr.rs[4] = 99 /\ result.resultStr.rs[6] = 99

\* The input ended in the attribute header or in the sample buffer of the
\* frame being read.
InputTruncated ==
  /\ frame.hdr >= 0
  /\ \/ frame.hdr < ATTRIBUTE_LEN
     \/ frame.buf < PacketLength(frame.kind = "F")

\* C13: when the input ends on the attribute read or on the sample-buffer
\* read (in the middle of a frame, a partial buffer included), the dispatcher
\* loop ends cleanly: nothing is written for the partial frame, no error is
\* raised, and the process exits with status 0.
C13_TruncatedInputExitsCleanly ==
  InputTruncated => (pc = "exit" /\ out = << >>)

C15_OneLinePerFrameInInputOrder ==
  /\ [](/\ Len(out) <= 1
        /\ out # << >> => (pc \in { "done", "dumpError" }
                           /\ frame.kind \in { "F", "A" })
        /\ FisbSuccess =>
             \A i \in 0..5 : hexBlocks[i] \in { Hex(TxBlocks[frame.tx][i]),
                                                 ZeroBlockHex })
  /\ [][ /\ (out' # out /\ out' # << >>) =>
              (out = << >> /\ frame' = frame /\ pc # "read" /\ pc' = "done")
         /\ (frame' # frame /\ frame'.hdr > 0) => (pc = "read" /\ out = << >>)
         /\ pc = "done" => \/ (pc' = "read" /\ frame' = NoFrame)
                           \/ (pc' = "dumpError" /\ frame' = frame
                               /\ out' = out) ]_vars

\* C15 witness: an ADS-B frame failed its four attempts and its
\* '#FAILED-ADS-B' line, the only line of the frame, is written; the next
\* header is not read yet.
C15_Witness ==
  /\ pc = "done" /\ frame.kind = "A" /\ ~result.didErrCorrect
  /\ Len(tried) = 4
  /\ out = << "#FAILED-ADS-B" >>

\* C16: the decoding of a frame starts from a state that is a function of the
\* frame that was read and of nothing the frames before it left behind:
\* offset 1, no block decoded, every error value 99, no shift that worked, the
\* first of the four ADS-B attempts, and the short/long hint of this frame's
\* own samples; the startup configuration never changes.
C16_FrameDecodedFromFreshState ==
  [][ /\ config' = config
      /\ (pc = "read" /\ pc' \in { "sweep", "adsb" }) =>
           /\ offset' = 1 /\ block' = 0
           /\ hexBlocks' = NoBlocks /\ hexErrs' = NoErrs
           /\ attempt' = 1 /\ tried' = << >> /\ passHist' = NoPass
           /\ frame'.kind = "F" => shiftThatWorked' = NoShift
           /\ frame'.kind = "A" => isShort' = GuessShort(frame'.lead, 1) ]_vars

\* C16 witness: a header is about to be read after a FIS-B frame whose last
\* block was decoded with shift -0.75.
C16_Witness ==
  /\ pc = "read"
  /\ frame = NoFrame
  /\ shiftThatWorked = -75

\* C17: for each offset in {1, 2} the slicer returns three arrays (on time,
\* one sample earlier, one sample later) of equal length: 736 for a FIS-B
\* block, 240 for an ADS-B short packet, 384 for an ADS-B long packet.
C17_ThreeArraysOfFullLength ==
  slicer.fn # "none" =>
    LET length == IF slicer.fn = "extractBlockBitsFisb"
                     \/ (slicer.fn = "tryShiftBits" /\ Len(slicer.bits) > 384)
                    THEN 736
                    ELSE IF slicer.short THEN 240 ELSE 384
    IN /\ Len(slicer.bits) = length
       /\ Len(slicer.bitsBefore) = length
       /\ Len(slicer.bitsAfter) = length

\* C18: for FIS-B block i and start offset o, bit b (0..7) of deinterleaved
\* byte j (0..91) is read from sample index o + 2 * (8 * i + 48 * j) + 2 * b;
\* the earlier and the later neighbour arrays read that index - 1 and + 1.
C18_FisbSampleIndex ==
  slicer.fn = "extractBlockBitsFisb" =>
    \A j \in 0..91 : \A b \in 0..7 :
      LET index == slicer.off + (2 * ((8 * slicer.blockNumber) + (48 * j)))
                   + (2 * b)
      IN /\ slicer.bits[(8 * j) + b + 1] = index
         /\ slicer.bitsBefore[(8 * j) + b + 1] = index - 1
         /\ slicer.bitsAfter[(8 * j) + b + 1] = index + 1

\* C18 witness: block 5 at offset 2; the last bit of byte 91 is read from
\* sample 8832, its later neighbour from sample 8833.
C18_Witness ==
  /\ slicer.fn = "extractBlockBitsFisb"
  /\ slicer.off = 2 /\ slicer.blockNumber = 5
  /\ slicer.bits[736] = 8832
  /\ slicer.bitsAfter[736] = 8833

\* The plain shifted sample k of the candidate of the table entry i, from
\* the samples as they were extracted (units of 1/200).
PlainShifted(k, i) ==
  LET shift == SHIFT_BY_PROBABILITY[i]
      bit == Sample(slicer.p, slicer.bits[k])
  IN IF shift = 0 THEN 200 * bit
     ELSE IF shift > 0
       THEN (100 * bit) + (Sample(slicer.p, slicer.bitsBefore[k]) * shift)
       ELSE (100 * bit) - (Sample(slicer.p, slicer.bitsAfter[k]) * shift)

\* C19: with the fixed-bit override, every candidate of the table loop is the
\* plain shifted samples except at these indices: 48 and 50 are +10000, and
\* 49, 60, 61, 62, 63, 73, 74, 75 are -10000; every other index, 47 included,
\* is unchanged.  Without the override every index is unchanged.
C19_FixedBitsOverride ==
  slicer.fn = "tryShiftBits" =>
    \A k \in 1..Len(slicer.bits) :
      slicer.cand[k] =
        IF slicer.fixed /\ (k - 1) \in { 48, 50 } THEN 200 * 10000
        ELSE IF slicer.fixed /\ (k - 1) \in { 49, 60, 61, 62, 63, 73, 74, 75 }
          THEN -(200 * 10000)
        ELSE PlainShifted(k, slicer.i)

\* C19 witness: the second candidate (shift -0.75) of a call with the
\* override, made after the candidate of shift 0 wrote the fixed bits into
\* `bits`: index 49 is -10000 and index 47 is the plain shifted sample.
C19_Witness ==
  /\ slicer.fn = "tryShiftBits" /\ slicer.fixed
  /\ slicer.i = 2
  /\ slicer.cur[50] = -10000
  /\ slicer.cand[50] = -(200 * 10000)
  /\ slicer.cand[48] = PlainShifted(48, 2)
  /\ slicer.cand[48] # 200 * 10000 /\ slicer.cand[48] # -(200 * 10000)

\* C20: the value -74 that packAndTest returns when no known-prefix
\* candidate decodes stays inside tryShiftBits: every value in hexErrs, every
\* error value tryShiftBits, blockZeroTricks and decodeAdsb return, and every
\* error field of a line is an RS error count >= 0 (at most the number of
\* parity symbols), 98 or 99.
C20_PrefixSentinelStaysInside ==
  LET Allowed == (0..rsFisb.roots) \cup { ErrFailed, ErrNotTried }
  IN /\ \A i \in 0..5 : hexErrs[i] \in Allowed
     /\ \A i \in 1..Len(result.resultStr.rs) : result.resultStr.rs[i] \in Allowed
     /\ call.made => (call.errs \in Allowed /\ call.retErrs \in Allowed)

\* C20 witness: with known prefixes configured, every candidate of the
\* block-zero sweep was rejected (packAndTest returned -74 each time) and the
\* error value stored for block 0 is 98.
C20_Witness ==
  /\ call.made /\ call.step = "tricks"
  /\ config.replace_f6b /\ config.f6bArrayLen > 0
  /\ ~call.status
  /\ Len(call.attempts) = Len(SHIFT_BY_PROBABILITY)
  /\ hexErrs[0] = 98

\* C21: when processAdsbPacket reports success, the short/long flag it
\* returns is 'short' exactly when the accepted payload is a short message
\* (payload type code 0, 36 hex characters), whichever attempt produced it.
C21_ReturnedFlagIsAcceptedType ==
  AdsbSuccess =>
    LET hex == result.resultStr.hex
        byte0 == (16 * hex[1]) + hex[2]
    IN result.isShort <=> (Len(hex) = 36 /\ (byte0 \div 8) % 32 = 0)

\* C22: when the write of the raw-sample dump file of a failed frame fails,
\* the failure is not fatal: it is reported and the dispatcher goes on with
\* the next frame.
C22_DumpFailureIsNotFatal ==
  [][ (pc = "done" /\ result.dumped) => pc' = "read" ]_vars

\* C23: the fan-out server sends clients only complete lines.  Every chunk
\* passed to sendall for a client socket is exactly one whole line of the
\* input stream: it starts right after a newline of the stream, ends with the
\* next newline, and has been received.  The characters before the first
\* newline of the stream are therefore never sent.
C23_OnlyWholeLinesAreSent ==
  (server.pc # "none" /\ server.sent # NoSent) =>
    LET s == server.stream
        c == server.sent.chunk
    IN /\ server.sent.fno \in ClientFilenos
       /\ \E i \in 2..Len(s) : \E j \in i..Len(s) :
            /\ c = SubSeq(s, i, j)
            /\ s[i - 1] = NL
            /\ s[j] = NL
            /\ \A k \in i..(j - 1) : s[k] # NL
            /\ j <= server.pos

\* A stream that starts with a partial line: the second of two clients is
\* sent the line between the first and the second newline.
C23_Witness ==
  /\ server.pc # "none"
  /\ server.stream = << 97, NL, 98, 99, NL, 100 >>
  /\ Len(server.outputs) = 2
  /\ server.sent = [fno |-> filenoServer + 2, chunk |-> << 98, 99, NL >>]

\* C24: at most MAX_CONNECTIONS clients are connected at the same time:
\* outputs and filenoDict never hold more than 10 client sockets.
C24_AtMostMaxConnections ==
  server.pc # "none" =>
    /\ Len(server.outputs) <= MAX_CONNECTIONS
    /\ Cardinality(DOMAIN server.filenoDict \ { filenoServer }) <= MAX_CONNECTIONS

\* The shape of the per-block error list and of the payload list of a frame
\* that failed: counts below 98 with a payload up to block k, 98 at block k,
\* 99 after it, and no payload from block k on.
FailureShape(hb, he) ==
  \E k \in 0..5 :
    /\ \A i \in 0..5 : i < k => (he[i] >= 0 /\ he[i] < ErrFailed /\ hb[i] # None)
    /\ he[k] = ErrFailed
    /\ \A i \in 0..5 : i > k => he[i] = ErrNotTried
    /\ \A i \in 0..5 : i >= k => hb[i] = None

\* C25: within one decodeFisb pass, once a block has failed every enabled
\* recovery step (its sweep or its block-zero tricks were rejected and no
\* further step follows) no later block is attempted: the pass is over.
\* Whenever a FIS-B frame ends in failure, the error list is counts below 98
\* for a prefix of decoded blocks, one 98 at the first undecoded block and 99
\* after it, and hexBlocks is empty exactly for the blocks holding 98 or 99.
C25_FailedBlockEndsThePass ==
  /\ [](pc = "done" /\ frame.kind = "F" /\ ~result.didErrCorrect
          => FailureShape(hexBlocks, hexErrs))
  /\ [][ (/\ pc \in { "sweep", "tricks" }
          /\ call'.made /\ ~call'.accepted
          /\ pc' \notin { "tricks", "repair" })
         => \/ pc' = "done"
            \/ (pc' = "sweep" /\ offset = 1 /\ offset' = 2) ]_vars

\* C25 witness: a frame has failed after blocks 0 and 1 were decoded, block 2
\* failed in both passes and blocks 3..5 were never attempted.
C25_Witness ==
  /\ pc = "done" /\ frame.kind = "F" /\ ~result.didErrCorrect
  /\ offset = 2
  /\ hexBlocks[1] # None
  /\ hexErrs[2] = ErrFailed
  /\ hexErrs[3] = ErrNotTried
  /\ call.made /\ call.block = 2 /\ ~call.accepted

\* C26: the offset 2 pass works on the hexBlocks / hexErrs the offset 1 pass
\* left behind and resumes at the first block that is still undecoded; the
\* blocks decoded by the offset 1 pass (those before that block) are not
\* attempted again and keep their payload and their error count to the end of
\* the pass.
C26_SecondPassResumes ==
  [][ /\ (pc \in { "sweep", "tricks" } /\ offset = 1 /\ offset' = 2) =>
           /\ \A i \in 0..5 : hexBlocks[i] # None =>
                 (hexBlocks'[i] = hexBlocks[i] /\ hexErrs'[i] = hexErrs[i])
           /\ block' \in 0..5
           /\ hexBlocks'[block'] = None
           /\ \A i \in 0..5 : i < block' => hexBlocks'[i] # None
           /\ passHist'.first = block'
      /\ (pc \in { "sweep", "tricks", "repair" } /\ offset = 2) =>
           /\ \A i \in 0..5 : i < passHist.first =>
                 (hexBlocks'[i] = hexBlocks[i] /\ hexErrs'[i] = hexErrs[i])
           /\ call'.made => (call'.block >= passHist.first
                              /\ hexBlocks[call'.block] = None) ]_vars

\* C26 witness: the offset 2 pass started at block 2 and has ended in a
\* success whose blocks 0 and 1 needed corrections in the offset 1 pass.
C26_Witness ==
  /\ FisbSuccess
  /\ offset = 2
  /\ passHist.first = 2
  /\ hexErrs[0] > 0 /\ hexErrs[1] > 0
  /\ call.made /\ call.block = 5

\* C27: when block 0 decodes in the ordinary shift sweep and the early
\* termination check made on it finds the terminator, decodeFisb returns
\* success at once: the sweep of block 0 is the only call of the pass, and no
\* decode was attempted for blocks 1..5 of the frame (their error value is
\* still 99, their payload is the zero fill).
C27_EmptyFrameReturnsAtOnce ==
  [][ (/\ pc = "sweep" /\ block = 0
       /\ call'.made /\ call'.step = "sweep" /\ call'.accepted
       /\ check'.made /\ check'.found)
      => /\ pc' = "done" /\ result'.didErrCorrect
         /\ passHist'.calls = 1
         /\ call'.block = 0
         /\ \A i \in 1..5 : /\ hexErrs'[i] = ErrNotTried
                             /\ hexBlocks'[i] = ZeroBlockHex ]_vars

\* C27 witness: block 0 failed at offset 1, decoded in the sweep at offset 2,
\* and the frame was returned at once.
C27_Witness ==
  /\ FisbSuccess
  /\ offset = 2
  /\ call.made /\ call.step = "sweep" /\ call.block = 0 /\ call.accepted
  /\ check.made /\ check.found
  /\ passHist.calls = 1
  /\ hexErrs[5] = ErrNotTried

\* C28: when the block loop ends because a block stayed undecoded, the final
\* early termination check is made on the consecutive decoded blocks that
\* start at block 0.  If it finds an L = 0 terminator the frame is returned
\* as a success with every block that was undecoded zero-filled, although
\* the block attempted last failed (its error value is 98); if it finds none,
\* the pass reports failure and leaves the blocks as they were.
C28_FinalCheckDecides ==
  [][ (/\ pc \in { "sweep", "tricks" }
       /\ call'.made /\ ~call'.accepted
       /\ pc' \notin { "tricks", "repair" })
      => /\ check'.made
         /\ check'.decoded = { i \in 0..5 : hexBlocks[i] # None }
         /\ hexErrs'[block] = ErrFailed
         /\ IF check'.found
              THEN /\ pc' = "done" /\ result'.didErrCorrect
                   /\ \A i \in 0..5 :
                        /\ hexBlocks'[i] # None
                        /\ hexBlocks[i] = None => hexBlocks'[i] = ZeroBlockHex
              ELSE /\ hexBlocks' = hexBlocks
                   /\ \/ (offset = 1 /\ offset' = 2 /\ pc' = "sweep")
                      \/ (offset = 2 /\ pc' = "done" /\ ~result'.didErrCorrect)
     ]_vars

\* C28 witness: blocks 0 and 1 were decoded, block 2 failed, and the frame
\* is a success because the terminator lies in block 1.
C28_Witness ==
  /\ FisbSuccess
  /\ call.made /\ call.block = 2 /\ ~call.accepted
  /\ check.made /\ check.found /\ check.decoded = { 0, 1 }
  /\ hexErrs[2] = ErrFailed
  /\ hexBlocks[2] = ZeroBlockHex

\* C29: the block-zero tricks are attempted (by a step of the decoder, the
\* dispatcher at "done" makes no call) only for block 0, only in the step after the ordinary sweep of block 0 failed in the same pass, and only
\* when replace_f6b or block_zero_fixed_bits is enabled.  When they yield a
\* decode, its payload and its error count are stored for block 0 and the
\* early termination check is made on block 0 again before any later block
\* is attempted: the frame is returned, or the loop goes on with block 1.
C29_BlockZeroTricksInTheirPlace ==
  [][ (pc # "done" /\ call'.made /\ call'.step = "tricks")
      => /\ pc = "tricks" /\ block = 0 /\ call'.block = 0
         /\ config.replace_f6b \/ config.block_zero_fixed_bits
         /\ call.made /\ call.step = "sweep" /\ call.block = 0
         /\ ~call.accepted /\ call.offset = offset
         /\ call'.accepted =>
              /\ call'.hex # None
              /\ hexBlocks'[0] = call'.hex
              /\ hexErrs'[0] = call'.errs /\ hexErrs'[0] < ErrFailed
              /\ check'.made /\ check'.decoded = { 0 }
              /\ IF check'.found
                   THEN pc' = "done" /\ result'.didErrCorrect
                   ELSE pc' = "sweep" /\ block' = 1 /\ offset' = offset ]_vars

\* C29 witness: the tricks decoded block 0 with fixed bits forced, the check
\* found no terminator, and block 1 is next.
C29_Witness ==
  /\ pc = "sweep" /\ block = 1
  /\ call.made /\ call.step = "tricks" /\ call.accepted /\ call.forced
  /\ hexBlocks[0] = call.hex
  /\ check.made /\ ~check.found

\* C30: the trailing-zero repair returns to decodeFisb with a zero-region
\* start: the refined start (the index of the first sample above the
\* threshold found scanning backwards from the quarter boundary, plus 8,
\* rounded up to a multiple of 8) unless that lies earlier than the quarter
\* boundary, so that the final start is never earlier than the quarter
\* boundary.
C30_StartNeverBeforeQuarterBoundary ==
  [][ pc = "repair" =>
        /\ pc' # "crashed"
        /\ \A startValue \in QuarterStarts :
             \A i \in (startValue - 127)..(startValue - 1) :
               RefinedStart(startValue, i) >= startValue ]_vars

\* C31: fixZeros returns to decodeFisb having changed only the samples at
\* indices in [start, 576), where start is a multiple of 8 with
\* 64 <= start <= 576: the first 64 samples and the parity samples are never
\* modified, and a block in which no zero run was found is returned
\* unchanged.
C31_RepairChangesOnlyTheZeroRun ==
  [][ pc = "repair" =>
        /\ pc' \in { "sweep", "done" }
        /\ \A start \in FinalStarts :
             start % 8 = 0 /\ 64 <= start /\ start <= 576 ]_vars

\* C32: with the known-prefix override, for each shifted candidate the
\* configured prefixes are tried in their configured order (prefix 0 first),
\* the decoder being called after each; the first prefix with which the
\* candidate decodes is accepted and no later prefix is tried for that
\* candidate; a candidate that decodes with no prefix has had all of them
\* tried.
C32_FirstDecodingPrefixWins ==
  (call.made /\ call.f6b) =>
    \A a \in 1..Len(call.attempts) :
      LET tries == call.prefixTries[a]
          good == IF call.attempts[a] \in DecodableShifts /\ call.verdicts[a]
                    THEN call.prefixOk ELSE { }
      IN /\ Len(tries) <= config.f6bArrayLen
         /\ \A k \in 1..Len(tries) : tries[k] <=> (k - 1) \in good
         /\ \A k \in 1..(Len(tries) - 1) : ~tries[k]
         /\ call.verdicts[a] <=> (tries # << >> /\ tries[Len(tries)])
         /\ ~call.verdicts[a] => Len(tries) = config.f6bArrayLen

\* C32 witness: the decoder accepts the candidate with both configured
\* prefixes; the first is accepted and the second is not tried.
C32_Witness ==
  /\ call.made /\ call.f6b /\ call.accepted
  /\ config.f6bArrayLen = 2
  /\ call.prefixOk = { 0, 1 }
  /\ call.prefixTries[Len(call.attempts)] = << TRUE >>

\* C32 witness: the first prefix is rejected, the second accepted.
C32_WitnessSecondPrefix ==
  /\ call.made /\ call.f6b /\ call.accepted
  /\ call.prefixTries[Len(call.attempts)] = << FALSE, TRUE >>

\* C33: for a shift weight w # 0 the candidate sample is (b + |w| * n) / 2,
\* where b is the on-time sample and n the one-sample-earlier neighbour when
\* w > 0 and the one-sample-later neighbour when w < 0: the sign of w chooses
\* the neighbour and never negates its contribution.  For w = 0 the
\* candidate is the on-time samples themselves.  (Candidates are kept in
\* units of 1/200 and weights in hundredths; the indices the fixed-bit
\* override forces are left aside.)
C33_CandidateIsWeightedNeighbourSum ==
  slicer.fn = "tryShiftBits" =>
    LET w == SHIFT_BY_PROBABILITY[slicer.i]
        absW == IF w < 0 THEN -w ELSE w
    IN \A k \in 1..Len(slicer.bits) :
         (slicer.fixed /\ (k - 1) \in ForcedPositive \cup ForcedNegative)
         \/ LET b == Sample(slicer.p, slicer.bits[k])
                 n == IF w > 0 THEN Sample(slicer.p, slicer.bits[k] - 1)
                               ELSE Sample(slicer.p, slicer.bits[k] + 1)
             IN slicer.cand[k] = IF w = 0 THEN 200 * b
                                          ELSE (100 * b) + (absW * n)

\* C33 witness: the candidate of weight -0.75 at an index whose later
\* neighbour is negative: the neighbour lowers the sample by 0.75 / 2 of its
\* size.
C33_Witness ==
  /\ slicer.fn = "tryShiftBits" /\ ~slicer.fixed
  /\ SHIFT_BY_PROBABILITY[slicer.i] = -75
  /\ \E k \in 1..Len(slicer.bits) :
       /\ Sample(slicer.p, slicer.bits[k]) > 0
       /\ Sample(slicer.p, slicer.bits[k] + 1) < 0
       /\ slicer.cand[k] = (100 * Sample(slicer.p, slicer.bits[k]))
                            + (75 * Sample(slicer.p, slicer.bits[k] + 1))

\* C34: extractWholeLine loses and duplicates nothing once the first line
\* is passed.  On every trip of the server loop that calls it with
\* isFirstLine False: when the buffer holds no newline the line is None and
\* the buffer is unchanged; otherwise the line is the prefix of the buffer up
\* to and including its first newline and the rest is the new buffer, so
\* line + new buffer = old buffer.  The returned isFirstLine is False on
\* every trip after it has been False once.
C34_LineAndRestMakeTheBuffer ==
  [][ /\ ~server.isFirstLine => ~server'.isFirstLine
      /\ ( /\ server.pc \notin { "none", "crashed" }
           /\ server'.pc = "round"
           /\ server'.filenoDict = server.filenoDict
           /\ ~server.isFirstLine )
         => IF \A i \in 1..Len(server.stdinBuffer) : server.stdinBuffer[i] # NL
              THEN /\ server'.line = None
                   /\ server'.stdinBuffer = server.stdinBuffer
              ELSE /\ server'.line # None
                   /\ server'.line \o server'.stdinBuffer = server.stdinBuffer
                   /\ server'.line[Len(server'.line)] = NL
                   /\ \A i \in 1..(Len(server'.line) - 1) :
                        server'.line[i] # NL ]_vars

\* C34 witness: the stream "\n\na\n" has been read to its end and the last
\* call returned the line "a\n"; one call returns one line, so this call was
\* made after the one that passed the first newline.
C34_Witness ==
  /\ server.pc = "round"
  /\ server.stream = << NL, NL, 97, NL >>
  /\ server.pos = 4
  /\ ~server.isFirstLine
  /\ server.line = << 97, NL >>
  /\ server.stdinBuffer = << >>

\* C35: when the block-zero tricks have failed (every entry of
\* SHIFT_BY_PROBABILITY was tried and rejected), the block-0 on-time sample
\* array of the caller, which is handed to the trailing-zero repair next, is
\* the array that was extracted from the sample buffer: the fixed-bit
\* override has acted on the candidates only.
C35_CallerSamplesUntouched ==
  ( /\ slicer.fn = "tryShiftBits"
    /\ Len(slicer.bits) = 736
    /\ slicer.blockNumber = 0
    /\ slicer.i = Len(SHIFT_BY_PROBABILITY) )
  => \A k \in 1..Len(slicer.bits) :
       slicer.cur[k] = Sample(slicer.p, slicer.bits[k])

\* C38: the FIS-B slicer never reads outside the packet.  For every start
\* offset in {1, 2}, every block 0..5 and every byte 0..91, each on-time,
\* earlier-neighbour and later-neighbour index lies inside the buffer of
\* 8835 samples (0 <= index <= 8834), and no slice is cut short by the end
\* of the buffer: each of the three arrays has its 736 entries.
C38_FisbIndicesInsideTheBuffer ==
  slicer.fn = "extractBlockBitsFisb" =>
    /\ NumSamples(TRUE) = 8835
    /\ slicer.off \in 1..2 /\ slicer.blockNumber \in 0..5
    /\ \A j \in 0..91 :
         LET w == FisbWordSlices(NumSamples(TRUE), slicer.off,
                                 slicer.blockNumber, j)
         IN Len(w.bits) = 8 /\ Len(w.bitsBefore) = 8 /\ Len(w.bitsAfter) = 8
    /\ \A arr \in { slicer.bits, slicer.bitsBefore, slicer.bitsAfter } :
         /\ Len(arr) = 92 * 8
         /\ \A k \in 1..Len(arr) : 0 <= arr[k] /\ arr[k] <= 8834

\* C38 witness: block 0 at offset 1, where the earlier neighbour of the
\* first bit is sample 0, the first of the buffer.
C38_Witness ==
  /\ slicer.fn = "extractBlockBitsFisb"
  /\ slicer.off = 1 /\ slicer.blockNumber = 0
  /\ slicer.bitsBefore[1] = 0
  /\ slicer.bits[1] = 1

\* C38 witness, upper end: the later neighbour of the last bit of block 5 at
\* offset 2 is sample 8833, one below the last sample of the buffer.
C38_WitnessUpperEnd ==
  /\ slicer.fn = "extractBlockBitsFisb"
  /\ slicer.off = 2 /\ slicer.blockNumber = 5
  /\ \A k \in 1..736 : slicer.bitsAfter[k] <= slicer.bitsAfter[736]
  /\ slicer.bitsAfter[736] = NumSamples(TRUE) - 2

\* C36 as stated: when the early-terminate detection fires it fills only
\* blocks that are still undecoded, so every block that held an RS-decoded
\* payload when the check was called holds that payload in the emitted frame.
C36_DecodedBlocksKeepTheirPayload ==
  (check.made /\ check.found /\ pc = "done") =>
    \A i \in check.decoded : hexBlocks[i] = check.entry[i]

\* C36, amended: when the early-terminate detection fires at byte pointer p,
\* with currentBlock = (p + 1) div 72, every block after currentBlock is
\* '00' * 72 in the emitted frame, whether it was decoded or not, and the
\* blocks up to currentBlock, which were all decoded, keep their payload.
C36_BlocksAfterTerminatorAreZeroed ==
  (check.made /\ check.found /\ pc = "done") =>
    LET currentBlock == (check.ptr + 1) \div 72
    IN /\ result.didErrCorrect
       /\ \A i \in 0..5 :
            IF i > currentBlock
              THEN hexBlocks[i] = ZeroBlockHex
              ELSE i \in check.decoded /\ hexBlocks[i] = check.entry[i]

\* C36 witness: the final check of a frame whose terminator lies in block 1
\* and which goes on with non-zero bytes: blocks 0, 1 and 2 were decoded,
\* the payload of block 2 was not zeros, and the emitted block 2 is zeros.
C36_Witness ==
  /\ check.made /\ check.found /\ pc = "done"
  /\ (check.ptr + 1) \div 72 = 1
  /\ 2 \in check.decoded
  /\ check.entry[2] # ZeroBlockHex
  /\ hexBlocks[2] = ZeroBlockHex

\* How far the decoding of the frame has come: the offset pass, the block
\* and the recovery step of a FIS-B frame, the attempt of an ADS-B frame.
DecodeProgress(pcv, off, b, att) ==
  IF pcv = "adsb" THEN att
  ELSE (100 * off) + (10 * b)
       + (IF pcv = "sweep" THEN 0 ELSE IF pcv = "tricks" THEN 1 ELSE 2)

\* C37: a single tryShiftBits call never submits the same shift value twice
\* and makes at most 37 shift attempts (the hint, then the table without
\* the hint), each with at most one decoder run, or one per known prefix.
\* Decoding one frame ends after a bounded number of such calls: a FIS-B
\* frame has two offset passes over six blocks, with one sweep per block and
\* one more call for the block-zero tricks in a pass; an ADS-B frame has
\* four attempts.  Every decoding step moves on to a later step, block, pass
\* or attempt, or ends the frame.
C37_AttemptsAreBounded ==
  /\ [](/\ call.made =>
            /\ Len(call.attempts) <= Len(SHIFT_BY_PROBABILITY)
            /\ Len(SHIFT_BY_PROBABILITY) = 37
            /\ \A i, j \in 1..Len(call.attempts) :
                 i # j => call.attempts[i] # call.attempts[j]
            /\ \A i \in 1..Len(call.attempts) :
                 Len(call.prefixTries[i]) <= config.f6bArrayLen
        /\ offset \in 1..2
        /\ block \in 0..5
        /\ passHist.calls <= NumBlocks + 1
        /\ attempt \in 1..4
        /\ Len(tried) <= 4)
  /\ [][ (pc \in { "sweep", "tricks", "repair", "adsb" }) =>
           ( pc' \in { "done", "crashed" }
             \/ ( pc' \in { "sweep", "tricks", "repair", "adsb" }
                  /\ DecodeProgress(pc', offset', block', attempt')
                       > DecodeProgress(pc, offset, block, attempt) ) ) ]_vars

\* C37 witness: a call with a hint that tried the hint and the 36 other
\* entries of the table and was rejected 37 times.
C37_Witness ==
  /\ call.made
  /\ call.tryFirst # NoShift
  /\ Len(call.attempts) = 37
  /\ call.attempts[1] = call.tryFirst
  /\ ~call.status

\* C37 witness: the seventh call of a pass (the block-zero tricks and six
\* sweeps), made in the second offset pass.
C37_WitnessSevenCalls ==
  /\ call.made /\ call.nth = NumBlocks + 1 /\ call.offset = 2

\* C39: every complete line the server extracts from standard input while a
\* client is connected is sent to that client (no line is dropped for a
\* connected client; lines are sent in the order they are extracted).  On
\* every trip of the loop that extracts a line, sendall is called with that
\* line for every client in filenoDict.
C39_EveryLineReachesEveryClient ==
  [][ ( /\ server.pc \notin { "none", "crashed" }
        /\ server'.pc = "round"
        /\ server'.filenoDict = server.filenoDict
        /\ server'.line # None )
      => server'.sentTo = (DOMAIN server'.filenoDict) \ { filenoServer } ]_vars

\* C40: the client bookkeeping stays consistent: every client fileno is in
\* inputs, in outputs and in filenoDict, or in none of the three, and each
\* at most once.  Whatever readiness one select round reports, no client is
\* removed twice and no fileno is looked up in filenoDict after it was
\* removed: the loop never stops on such a lookup.
C40_BookkeepingStaysConsistent ==
  server.pc # "none" =>
    /\ \A f \in ClientFilenos :
         LET inInputs == { k \in 1..Len(server.inputs) : server.inputs[k] = f }
             inOutputs == { k \in 1..Len(server.outputs) : server.outputs[k] = f }
         IN /\ Cardinality(inInputs) <= 1
            /\ Cardinality(inOutputs) <= 1
            /\ (inInputs # { }) <=> (f \in DOMAIN server.filenoDict)
            /\ (inOutputs # { }) <=> (f \in DOMAIN server.filenoDict)
    /\ server.pc # "crashed"

====
